---- MODULE Spec2Model ----
(***************************************************************************)
(* AgentIQ: the budget-guarded task execution loop                         *)
(* (services/enhanced_orchestrator.py), the token budget manager and its   *)
(* redis-backed daily ledger (services/token_budget.py), the base          *)
(* orchestrator (agents/orchestrator.py) and the /query endpoint           *)
(* (api/main.py).                                                          *)
(*                                                                         *)
(* Money is counted in micro-dollars (1 USD = 1000000), so that the        *)
(* per-token rate COST_PER_x_TOKEN / 1_000_000 USD is the integer          *)
(* COST_PER_x_TOKEN.  Text is represented by its length, the only thing    *)
(* the token heuristic (len // 4) looks at.  The budget comparisons use    *)
(* these integers (the settings of the runs keep every estimate away from  *)
(* a cap, where rounding could decide); the properties of the estimate     *)
(* itself use calculate_cost_estimate_f64, the binary64 value the code     *)
(* computes.                                                               *)
(***************************************************************************)
EXTENDS Integers, Sequences, FiniteSets, TLC

(***************************************************************************)
(* Program constants (core/config.py), in micro-dollars where money.       *)
(***************************************************************************)
TOKEN_BUDGET_DAILY == 100000000
TOKEN_BUDGET_PER_QUERY == 5000000
COST_PER_INPUT_TOKEN == 15
COST_PER_OUTPUT_TOKEN == 75
MAX_AGENTS_PER_QUERY == 10

(***************************************************************************)
(* Bounds of the model.                                                    *)
(***************************************************************************)
\* Concurrent callers / queries / requests.
NProcs == 2
\* Calls the direct callers make to the budget manager (SpecGuard).
MaxCalls == 2
\* Queries started plus tasks planned, over all queries (Spec, SpecApi).
MaxWork == 4
\* Largest token count and largest factor handed to the cost estimate
\* (SpecCost).
MaxTokens == 6
MaxFactor == 3

Procs == 1..NProcs

\* The serving process runs within one calendar day; the other day is a
\* day nothing was charged to.
Days == {1, 2}

\* Budget settings (TOKEN_BUDGET_DAILY, TOKEN_BUDGET_PER_QUERY from the
\* environment) that the direct callers below can reach.
\* No estimate below equals a cap in micro-dollars, where the binary
\* floats of the code could fall on the other side of the comparison.
GuardConfigs ==
    { [daily |-> 1000, per_query |-> 700],
      [daily |-> 500, per_query |-> 700] }

\* (input_tokens, output_tokens) passed by direct callers of the budget
\* manager: a check costs 600 or 900, a recorded usage costs 600.
CheckTokenChoices == {<<20, 4>>, <<20, 8>>}
RecordTokenChoices == {<<20, 4>>}

RECURSIVE SumOver(_, _)
SumOver(S, f) ==
    IF S = {} THEN 0
    ELSE LET x == CHOOSE y \in S : TRUE
         IN  f[x] + SumOver(S \ {x}, f)

(***************************************************************************)
(* TokenBudgetManager: pure parts.                                         *)
(***************************************************************************)
calculate_cost_estimate(input_tokens, output_tokens_estimate) ==
    input_tokens * COST_PER_INPUT_TOKEN
        + output_tokens_estimate * COST_PER_OUTPUT_TOKEN

(***************************************************************************)
(* The same estimate as the binary64 value the code computes.  A natural   *)
(* number of any size is a sequence of limbs in base 256, least            *)
(* significant first, without zero limbs at the high end.  A float is      *)
(* [m, e] standing for m * 2^e, where m is such a number with exactly 53   *)
(* bits; zero is [<<>>, 0].  Every result is rounded to 53 significant     *)
(* bits, ties to even, as the hardware does; the values met here are far   *)
(* from the subnormal and the overflow range.                              *)
(***************************************************************************)
Pow2 == <<1, 2, 4, 8, 16, 32, 64, 128>>

RECURSIVE LimbsOf(_)
LimbsOf(n) == IF n = 0 THEN <<>> ELSE <<n % 256>> \o LimbsOf(n \div 256)

\* Drops the zero limbs at the high end.
TrimLimbs(x) ==
    LET used == {i \in 1..Len(x) : x[i] # 0}
    IN  IF used = {} THEN <<>>
        ELSE SubSeq(x, 1, CHOOSE i \in used : \A j \in used : j <= i)

\* Bit i (from 0) of the number x.
Bit(x, i) ==
    IF i < 0 \/ (i \div 8) + 1 > Len(x) THEN 0
    ELSE (x[(i \div 8) + 1] \div Pow2[(i % 8) + 1]) % 2

\* The eight bits of x from bit s on, as a limb.
LimbAt(x, s) ==
    Bit(x, s) + 2 * Bit(x, s + 1) + 4 * Bit(x, s + 2) + 8 * Bit(x, s + 3)
      + 16 * Bit(x, s + 4) + 32 * Bit(x, s + 5) + 64 * Bit(x, s + 6)
      + 128 * Bit(x, s + 7)

\* Number of bits of the non-zero number x.
BitLen(x) ==
    8 * (Len(x) - 1) + Cardinality({k \in 1..8 : x[Len(x)] >= Pow2[k]})

\* floor(x / 2^s) and x * 2^s.
ShiftRight(x, s) ==
    TrimLimbs([j \in 1..Len(x) |-> LimbAt(x, s + 8 * (j - 1))])

ShiftLeft(x, s) ==
    TrimLimbs([j \in 1..(Len(x) + (s \div 8) + 1) |->
                  LimbAt(x, 8 * (j - 1) - s)])

RECURSIVE AddLimbs(_, _, _)
AddLimbs(x, y, carry) ==
    IF x = <<>> /\ y = <<>>
    THEN IF carry = 0 THEN <<>> ELSE <<carry>>
    ELSE LET a == IF x = <<>> THEN 0 ELSE Head(x)
             b == IF y = <<>> THEN 0 ELSE Head(y)
             t == a + b + carry
         IN  <<t % 256>> \o AddLimbs(IF x = <<>> THEN <<>> ELSE Tail(x),
                                     IF y = <<>> THEN <<>> ELSE Tail(y),
                                     t \div 256)

\* x * n + carry for a natural n below 2^20.
RECURSIVE MulLimbs(_, _, _)
MulLimbs(x, n, carry) ==
    IF x = <<>> THEN LimbsOf(carry)
    ELSE LET t == Head(x) * n + carry
         IN  <<t % 256>> \o MulLimbs(Tail(x), n, t \div 256)

\* Quotient and remainder of x by a natural d below 2^20.
RECURSIVE DivRemLimbs(_, _)
DivRemLimbs(x, d) ==
    IF x = <<>> THEN [q |-> <<>>, r |-> 0]
    ELSE LET hi == DivRemLimbs(Tail(x), d)
             t == 256 * hi.r + Head(x)
         IN  [q |-> <<t \div d>> \o hi.q, r |-> t % d]

\* -1, 0, 1 as the number x is below, equal to or above the number y.
CmpLimbs(x, y) ==
    LET n == IF Len(x) < Len(y) THEN Len(y) ELSE Len(x)
        at(z, i) == IF i > Len(z) THEN 0 ELSE z[i]
        diff == {i \in 1..n : at(x, i) # at(y, i)}
    IN  IF diff = {} THEN 0
        ELSE LET top == CHOOSE i \in diff : \A j \in diff : j <= i
             IN  IF at(x, top) < at(y, top) THEN -1 ELSE 1

\* The binary64 nearest to x * 2^e (plus a non-zero amount below the last
\* bit of x when sticky): round to nearest, ties to even.
RoundF64(x, e, sticky) ==
    IF x = <<>> THEN [m |-> <<>>, e |-> 0]
    ELSE LET k == BitLen(x) - 53
         IN  IF k <= 0 THEN [m |-> ShiftLeft(x, 0 - k), e |-> e + k]
             ELSE LET kept == ShiftRight(x, k)
                      guard == Bit(x, k - 1)
                      low == sticky
                               \/ ShiftLeft(ShiftRight(x, k - 1), k - 1) # x
                      up == guard = 1 /\ (low \/ Bit(kept, 0) = 1)
                      m1 == IF up THEN AddLimbs(kept, <<1>>, 0) ELSE kept
                  IN  IF BitLen(m1) = 54
                      THEN [m |-> ShiftRight(m1, 1), e |-> e + k + 1]
                      ELSE [m |-> m1, e |-> e + k]

F64OfNat(n) == RoundF64(LimbsOf(n), 0, FALSE)

\* n * y for a natural n below 2^20 (an int times a float).
F64MulNat(n, y) == RoundF64(TrimLimbs(MulLimbs(y.m, n, 0)), y.e, FALSE)

F64Add(x, y) ==
    IF x.m = <<>> THEN y
    ELSE IF y.m = <<>> THEN x
    ELSE LET e == IF x.e < y.e THEN x.e ELSE y.e
         IN  RoundF64(TrimLimbs(AddLimbs(ShiftLeft(x.m, x.e - e),
                                         ShiftLeft(y.m, y.e - e), 0)),
                      e, FALSE)

\* x / d for a natural d below 2^20.
F64DivNat(x, d) ==
    LET qr == DivRemLimbs(ShiftLeft(x.m, 24), d)
    IN  RoundF64(TrimLimbs(qr.q), x.e - 24, qr.r # 0)

F64Leq(x, y) ==
    IF x.m = <<>> THEN TRUE
    ELSE IF y.m = <<>> THEN FALSE
    ELSE x.e < y.e \/ (x.e = y.e /\ CmpLimbs(x.m, y.m) <= 0)

\* self.cost_per_input_token and self.cost_per_output_token of __init__.
cost_per_input_token == F64DivNat(F64OfNat(COST_PER_INPUT_TOKEN), 1000000)
cost_per_output_token == F64DivNat(F64OfNat(COST_PER_OUTPUT_TOKEN), 1000000)

\* calculate_cost_estimate on binary64: two products and their sum.
calculate_cost_estimate_f64(input_tokens, output_tokens_estimate) ==
    F64Add(F64MulNat(input_tokens, cost_per_input_token),
           F64MulNat(output_tokens_estimate, cost_per_output_token))

\* Variant: the estimate is compared with the whole daily budget.
DailyFits_IgnoresUsage(estimated_cost, current_usage, daily) ==
    ~(estimated_cost > daily)

\* The comparison of check_daily_budget on the usage value it has read.
DailyFits(estimated_cost, current_usage, daily) ==
    ~(estimated_cost > daily - current_usage)

(***************************************************************************)
(* The redis hash daily_usage:<date>.  A key that does not exist is        *)
(* NoEntry; HINCRBY / HINCRBYFLOAT create it.                              *)
(***************************************************************************)
NoEntry ==
    [present |-> FALSE, total_cost |-> 0, total_tokens |-> 0,
     queries_processed |-> 0]

\* Variant: the cost is subtracted from the total.
PipelineIncr_Subtract(entry, cost, tokens) ==
    [present |-> TRUE,
     total_cost |-> entry.total_cost - cost,
     total_tokens |-> entry.total_tokens + tokens,
     queries_processed |-> entry.queries_processed + 1]

\* Variant: the cost is written with HSET instead of HINCRBYFLOAT.
PipelineIncr_Overwrite(entry, cost, tokens) ==
    [present |-> TRUE,
     total_cost |-> cost,
     total_tokens |-> entry.total_tokens + tokens,
     queries_processed |-> entry.queries_processed + 1]

\* pipe.hincrbyfloat / hincrby / hincrby, executed as one transaction.
PipelineIncr(entry, cost, tokens) ==
    [present |-> TRUE,
     total_cost |-> entry.total_cost + cost,
     total_tokens |-> entry.total_tokens + tokens,
     queries_processed |-> entry.queries_processed + 1]

\* Variant: a failing read counts a dollar as spent (fail closed).
ReadDailyUsage_FailClosed(up, entry) ==
    IF ~up THEN 1000000
    ELSE IF entry.present THEN entry.total_cost ELSE 0

\* redis.hget(usage_key, "total_cost") followed by the float conversion;
\* a failing read is swallowed and reads as 0.0.
ReadDailyUsage(up, entry) ==
    IF up /\ entry.present THEN entry.total_cost ELSE 0


(***************************************************************************)
(* State.                                                                  *)
(***************************************************************************)
VARIABLES
    config,               \* settings: daily and per-query budget
    today,                \* date.today() of the serving process
    redis_up,             \* whether the backing store answers
    daily_usage,          \* redis: day -> hash daily_usage:<day>
    usage_log,            \* redis: day -> list usage_log:<day>, newest first
    pc,                   \* where each caller / query stands
    calls,                \* calls, queries and tasks admitted so far
    chk,                  \* locals of pre_flight_check
    budget_check,         \* what pre_flight_check returned or raised
    rec,                  \* locals of record_usage: the usage record
    current_query_id,     \* orchestrator instance field
    current_query_cost,   \* orchestrator instance field
    agent_costs,          \* orchestrator instance field
    tasks,                \* execute(): the plan
    idx,                  \* execute(): loop index i
    results,              \* execute(): results map
    total_estimated_cost, \* execute(): summed estimates
    agent_result,         \* execute(): result of the agent call just made
    outcome,              \* what execute() / execute_query returned or raised
    issued,               \* history: increments handed to _update_daily_totals
    faults,               \* history: store failures and resets that happened
    hist                  \* history of each query: calls, verdicts, own cost

envVars == <<config, today, redis_up>>
storeVars == <<daily_usage, usage_log>>
guardVars == <<chk, budget_check>>
instVars == <<current_query_id, current_query_cost, agent_costs>>
queryVars == <<tasks, idx, results, total_estimated_cost, agent_result,
              outcome>>
ghostVars == <<issued, faults, hist>>
vars == <<config, today, redis_up, daily_usage, usage_log, pc, calls, chk,
          budget_check, rec, current_query_id, current_query_cost,
          agent_costs, tasks, idx, results, total_estimated_cost,
          agent_result, outcome,
          issued, faults, hist>>

NoCheck ==
    [outcome |-> "none", approved |-> FALSE, estimated_cost |-> 0,
     current_daily_usage |-> 0, remaining_daily_budget |-> 0,
     budget_usage_percent |-> <<0, 1>>, per_query_budget_remaining |-> 0,
     cited_limit |-> "none", cited_amount |-> 0, store_seen |-> {}]

\* store_seen is history: whether the store answered at the entry of the
\* call and at each of its reads.  usage_date is the local "today" of the
\* _get_daily_usage call under way: the day of the key it reads, taken
\* from date.today() before the HGET is awaited.
NoChk == [input_tokens |-> 0, output_tokens |-> 0, estimated_cost |-> 0,
          current_usage |-> 0, usage_date |-> 0, store_seen |-> {}]

NoRecord ==
    [date |-> 0, incr_date |-> 0, query_id |-> 0, agent_name |-> "none",
     input_tokens |-> 0, output_tokens |-> 0, total_tokens |-> 0,
     cost |-> 0]

\* answer is the length of the answer text.  agent_costs_shared tells
\* whether the dictionary under cost_breakdown.agent_costs is the object
\* self.agent_costs of the orchestrator (execute returns the attribute
\* itself, not a copy) or an object the instance no longer refers to.
NoOutcome ==
    [status |-> "none", answer |-> 0, steps |-> <<>>,
     intermediate_results |-> <<>>, total_cost |-> 0,
     agent_costs |-> <<>>, estimated_cost |-> 0, error |-> "none",
     origin |-> "none", raised |-> "none", failed_agent |-> "none",
     agent_costs_shared |-> FALSE]

\* History of one query: the query text execute was called with, the
\* number of pre-flight checks made for it, the task indices whose agent
\* was invoked and what each call handed the agent as context (see
\* Handed), the task indices the budget manager rejected, the costs
\* record_usage returned for its tasks, the synthesis calls made, the
\* arguments of each (see SynthesisArgs) and what the synthesis replied,
\* the phases of the state machine of section 4.5 it went through,
\* whether another execute() call was in progress at any time during its
\* own, and whether its deadline elapsed while it awaited an agent.
NoHist ==
    [query |-> 0, checked |-> 0, invoked |-> <<>>, contexts |-> <<>>,
     rejected |-> {}, recorded |-> <<>>, synthesized |-> 0,
     synthesis_args |-> <<>>, reply |-> <<>>, phases |-> <<>>,
     overlapped |-> FALSE, deadline_elapsed |-> FALSE]

NoIssued == [cost |-> 0, tokens |-> 0, n |-> 0]

InitCommon ==
    /\ today = 1
    /\ redis_up = TRUE
    /\ daily_usage = [d \in Days |-> NoEntry]
    /\ usage_log = [d \in Days |-> <<>>]
    /\ pc = [p \in Procs |-> "idle"]
    /\ calls = 0
    /\ chk = [p \in Procs |-> NoChk]
    /\ budget_check = [p \in Procs |-> NoCheck]
    /\ rec = [p \in Procs |-> NoRecord]
    /\ current_query_id = 0
    /\ current_query_cost = 0
    /\ agent_costs = <<>>
    /\ tasks = [p \in Procs |-> <<>>]
    /\ idx = [p \in Procs |-> 0]
    /\ results = [p \in Procs |-> <<>>]
    /\ total_estimated_cost = [p \in Procs |-> 0]
    /\ agent_result = [p \in Procs |-> 0]
    /\ outcome = [p \in Procs |-> NoOutcome]
    /\ issued = [d \in Days |-> NoIssued]
    /\ faults = {}
    /\ hist = [p \in Procs |-> NoHist]

(***************************************************************************)
(* The environment: the store goes away and comes back.                    *)
(***************************************************************************)
RedisDown ==
    /\ redis_up
    /\ redis_up' = FALSE
    /\ UNCHANGED <<config, today, storeVars, pc, calls, guardVars, rec,
                   instVars, queryVars, ghostVars>>

RedisUp ==
    /\ ~redis_up
    /\ redis_up' = TRUE
    /\ UNCHANGED <<config, today, storeVars, pc, calls, guardVars, rec,
                   instVars, queryVars, ghostVars>>

(***************************************************************************)
(* TokenBudgetManager.pre_flight_check, one action per suspension point.   *)
(* PreFlightEnter is the synchronous prefix: the estimate and the          *)
(* per-query comparison.  The three reads are the three calls of           *)
(* _get_daily_usage (lines 43, 139, 146).  Each takes date.today() for     *)
(* its key when it is called, that is in the step in which the reply       *)
(* before it arrived, and reads that key when its own reply arrives.       *)
(* The call ends in pc = "preflight_return" with budget_check holding the  *)
(* returned dictionary or the raised TokenBudgetException.                 *)
(***************************************************************************)
\* Variant: the comparison is written the wrong way round.
check_per_query_budget_Inverted(estimated_cost, per_query) ==
    ~(estimated_cost < per_query)

\* Variant: the cap is compared with what the query has cost so far plus
\* the estimate.
check_per_query_budget_Accumulated(estimated_cost, per_query) ==
    ~(current_query_cost + estimated_cost > per_query)

\* The comparison of check_per_query_budget.
check_per_query_budget(estimated_cost, per_query) ==
    ~(estimated_cost > per_query)

\* The TokenBudgetException of pre_flight_check, with the limit and the
\* amount its message names.
RaisedDecision(est, limit, amount, seen) ==
    [NoCheck EXCEPT !.outcome = "raised", !.estimated_cost = est,
                    !.cited_limit = limit, !.cited_amount = amount,
                    !.store_seen = seen]

\* The dictionary pre_flight_check returns after its last read; the
\* percentage is kept as the fraction (usage * 100) / daily_budget.  A
\* daily budget of 0 makes the division raise, which is the fail-open
\* return.
ApprovedDecision(est, current_usage, cfg, seen) ==
    IF cfg.daily = 0
    THEN [NoCheck EXCEPT !.outcome = "fail_open", !.approved = TRUE,
                         !.store_seen = seen]
    ELSE [outcome |-> "approved", approved |-> TRUE,
          estimated_cost |-> est,
          current_daily_usage |-> current_usage,
          remaining_daily_budget |-> cfg.daily - current_usage,
          budget_usage_percent |-> <<current_usage * 100, cfg.daily>>,
          per_query_budget_remaining |-> cfg.per_query - est,
          cited_limit |-> "none", cited_amount |-> 0,
          store_seen |-> seen]

PreFlightEnter(p, input_tokens, output_tokens) ==
    LET est == calculate_cost_estimate(input_tokens, output_tokens)
    IN  /\ chk' = [chk EXCEPT ![p] =
                     [input_tokens |-> input_tokens,
                      output_tokens |-> output_tokens,
                      estimated_cost |-> est, current_usage |-> 0,
                      usage_date |->
                          IF check_per_query_budget(est, config.per_query)
                          THEN today ELSE 0,
                      store_seen |-> {redis_up}]]
        /\ IF check_per_query_budget(est, config.per_query)
           THEN /\ pc' = [pc EXCEPT ![p] = "check_daily_budget"]
                /\ budget_check' = [budget_check EXCEPT ![p] = NoCheck]
           ELSE /\ pc' = [pc EXCEPT ![p] = "preflight_return"]
                /\ budget_check' = [budget_check EXCEPT ![p] =
                     RaisedDecision(est, "per_query_budget",
                                    config.per_query, {redis_up})]

\* Variant: the daily check reserves the estimate in the ledger when it
\* fits.
CheckDailyBudget_Reserving(p) ==
    /\ pc[p] = "check_daily_budget"
    /\ LET current_usage ==
               ReadDailyUsage(redis_up, daily_usage[chk[p].usage_date])
           fits == DailyFits(chk[p].estimated_cost, current_usage,
                             config.daily)
       IN  /\ pc' = [pc EXCEPT ![p] =
                    IF fits THEN "status_read" ELSE "daily_exceeded_read"]
           /\ chk' = [chk EXCEPT ![p].current_usage = current_usage,
                                 ![p].usage_date = today,
                                 ![p].store_seen = @ \cup {redis_up}]
           /\ daily_usage' =
                 IF fits /\ redis_up
                 THEN [daily_usage EXCEPT ![today] =
                         [@ EXCEPT !.present = TRUE,
                                   !.total_cost =
                                       @ + chk[p].estimated_cost]]
                 ELSE daily_usage
    /\ UNCHANGED <<envVars, usage_log, calls, budget_check, rec, instVars,
                   queryVars, ghostVars>>

\* The HGET of check_daily_budget is answered; the read that follows
\* (line 139 or 146) is called and takes its key.
CheckDailyBudget(p) ==
    /\ pc[p] = "check_daily_budget"
    /\ LET current_usage ==
               ReadDailyUsage(redis_up, daily_usage[chk[p].usage_date])
       IN  /\ pc' = [pc EXCEPT ![p] =
                    IF DailyFits(chk[p].estimated_cost, current_usage,
                                 config.daily)
                    THEN "status_read" ELSE "daily_exceeded_read"]
           /\ chk' = [chk EXCEPT ![p].current_usage = current_usage,
                                 ![p].usage_date = today,
                                 ![p].store_seen = @ \cup {redis_up}]
    /\ UNCHANGED <<envVars, storeVars, calls, budget_check, rec, instVars,
                   queryVars, ghostVars>>

DailyExceededRead(p) ==
    /\ pc[p] = "daily_exceeded_read"
    /\ LET current_usage ==
               ReadDailyUsage(redis_up, daily_usage[chk[p].usage_date])
       IN  budget_check' = [budget_check EXCEPT ![p] =
             RaisedDecision(chk[p].estimated_cost, "remaining_daily_budget",
                            config.daily - current_usage,
                            chk[p].store_seen \cup {redis_up})]
    /\ pc' = [pc EXCEPT ![p] = "preflight_return"]
    /\ UNCHANGED <<envVars, storeVars, calls, chk, rec, instVars,
                   queryVars, ghostVars>>

StatusRead(p) ==
    /\ pc[p] = "status_read"
    /\ LET current_usage ==
               ReadDailyUsage(redis_up, daily_usage[chk[p].usage_date])
       IN  budget_check' = [budget_check EXCEPT ![p] =
             ApprovedDecision(chk[p].estimated_cost, current_usage, config,
                              chk[p].store_seen \cup {redis_up})]
    /\ pc' = [pc EXCEPT ![p] = "preflight_return"]
    /\ UNCHANGED <<envVars, storeVars, calls, chk, rec, instVars,
                   queryVars, ghostVars>>


(***************************************************************************)
(* TokenBudgetManager.record_usage.  RecordUsageEnter is the synchronous   *)
(* prefix that builds the usage record; the LPUSH and the EXPIRE of        *)
(* _store_usage_record and the pipeline of _update_daily_totals are the    *)
(* three suspension points.  Both helpers swallow a store failure, so      *)
(* record_usage always returns the record.                                 *)
(***************************************************************************)
RecordUsageEnter(p, input_tokens, output_tokens, agent_name, query_id) ==
    /\ rec' = [rec EXCEPT ![p] =
         [date |-> today, incr_date |-> 0, query_id |-> query_id,
          agent_name |-> agent_name,
          input_tokens |-> input_tokens, output_tokens |-> output_tokens,
          total_tokens |-> input_tokens + output_tokens,
          cost |-> calculate_cost_estimate(input_tokens, output_tokens)]]
    /\ pc' = [pc EXCEPT ![p] = "store_usage_record"]

\* Variant: the logged record carries no cost.
LogEntry_CostDropped(r) ==
    [date |-> r.date, query_id |-> r.query_id, agent_name |-> r.agent_name,
     input_tokens |-> r.input_tokens, output_tokens |-> r.output_tokens,
     total_tokens |-> r.total_tokens, cost |-> 0]

\* The record as it is pushed to the log (incr_date is a local of
\* _update_daily_totals, not a field of the record).
LogEntry(r) ==
    [date |-> r.date, query_id |-> r.query_id, agent_name |-> r.agent_name,
     input_tokens |-> r.input_tokens, output_tokens |-> r.output_tokens,
     total_tokens |-> r.total_tokens, cost |-> r.cost]

\* _update_daily_totals is entered by caller p: it takes date.today() for
\* its key and suspends on pipe.execute().
EnterUpdateDailyTotals(p) ==
    /\ rec' = [rec EXCEPT ![p].incr_date = today]
    /\ issued' = [issued EXCEPT ![today] =
                    [cost |-> @.cost + rec[p].cost,
                     tokens |-> @.tokens + rec[p].total_tokens,
                     n |-> @.n + 1]]
    /\ pc' = [pc EXCEPT ![p] = "update_daily_totals"]

\* The LPUSH of _store_usage_record is answered.  Done, the record is in
\* the log of its date and the coroutine suspends on the EXPIRE of the
\* same key; raised, the handler logs usage_record_storage_failed, the
\* EXPIRE is skipped and _update_daily_totals is entered.
StoreUsageRecord(p) ==
    /\ pc[p] = "store_usage_record"
    /\ IF redis_up
       THEN /\ usage_log' = [usage_log EXCEPT ![rec[p].date] =
                               <<LogEntry(rec[p])>> \o @]
            /\ pc' = [pc EXCEPT ![p] = "expire_usage_log"]
            /\ UNCHANGED <<rec, issued, faults>>
       ELSE /\ usage_log' = usage_log
            /\ faults' = faults \cup {"log_failed"}
            /\ EnterUpdateDailyTotals(p)
    /\ UNCHANGED <<envVars, daily_usage, calls, guardVars, instVars,
                   queryVars, hist>>

\* The EXPIRE of _store_usage_record is answered.  Raised, the handler
\* logs usage_record_storage_failed although the record is in the log.
\* Either way _update_daily_totals is entered next.
ExpireUsageLog(p) ==
    /\ pc[p] = "expire_usage_log"
    /\ faults' = IF redis_up THEN faults ELSE faults \cup {"log_failed"}
    /\ EnterUpdateDailyTotals(p)
    /\ UNCHANGED <<envVars, storeVars, calls, guardVars, instVars,
                   queryVars, hist>>

UpdateDailyTotals(p) ==
    /\ pc[p] = "update_daily_totals"
    /\ IF redis_up
       THEN /\ daily_usage' = [daily_usage EXCEPT ![rec[p].incr_date] =
                 PipelineIncr(@, rec[p].cost, rec[p].total_tokens)]
            /\ faults' = faults
       ELSE /\ daily_usage' = daily_usage
            /\ faults' = faults \cup {"incr_failed"}
    /\ pc' = [pc EXCEPT ![p] = "record_return"]
    /\ UNCHANGED <<envVars, usage_log, calls, guardVars, rec, instVars,
                   queryVars, issued, hist>>

\* reset_daily_usage(target_date): DEL of the day's hash; the usage log
\* is a different key and stays.
ResetDailyUsage(d) ==
    /\ daily_usage[d].present
    /\ IF redis_up
       THEN /\ daily_usage' = [daily_usage EXCEPT ![d] = NoEntry]
            /\ faults' = faults \cup {"reset"}
       ELSE /\ daily_usage' = daily_usage
            /\ faults' = faults
    /\ UNCHANGED <<envVars, usage_log, pc, calls, guardVars, rec, instVars,
                   queryVars, issued, hist>>

(***************************************************************************)
(* Callers that use the budget manager directly: any number of             *)
(* pre_flight_check and record_usage calls, interleaved at the             *)
(* suspension points.                                                      *)
(***************************************************************************)
CallerAgent == "web_search"

CallPreFlight(p) ==
    /\ pc[p] = "idle"
    /\ calls < MaxCalls
    /\ calls' = calls + 1
    /\ \E t \in CheckTokenChoices : PreFlightEnter(p, t[1], t[2])
    /\ UNCHANGED <<envVars, storeVars, rec, instVars, queryVars,
                   ghostVars>>

ReturnPreFlight(p) ==
    /\ pc[p] = "preflight_return"
    /\ pc' = [pc EXCEPT ![p] = "idle"]
    /\ chk' = [chk EXCEPT ![p] = NoChk]
    /\ budget_check' = [budget_check EXCEPT ![p] = NoCheck]
    /\ UNCHANGED <<envVars, storeVars, calls, rec, instVars, queryVars,
                   ghostVars>>

CallRecordUsage(p) ==
    /\ pc[p] = "idle"
    /\ calls < MaxCalls
    /\ calls' = calls + 1
    /\ \E t \in RecordTokenChoices :
          RecordUsageEnter(p, t[1], t[2], CallerAgent, p)
    /\ UNCHANGED <<envVars, storeVars, guardVars, instVars, queryVars,
                   ghostVars>>

ReturnRecordUsage(p) ==
    /\ pc[p] = "record_return"
    /\ pc' = [pc EXCEPT ![p] = "idle"]
    /\ rec' = [rec EXCEPT ![p] = NoRecord]
    /\ UNCHANGED <<envVars, storeVars, calls, guardVars, instVars,
                   queryVars, ghostVars>>

(***************************************************************************)
(* Reads of the ledger by a direct caller: get_daily_usage (today's        *)
(* entry) and get_usage_history (the entries of the last days).  Each      *)
(* HGETALL is a suspension point, with a step for the call up to it and a  *)
(* step for its reply; the key of the hash is made before the await.  The  *)
(* caller holds the returned value in budget_check until it returns.       *)
(***************************************************************************)
Min(a, b) == IF a <= b THEN a ELSE b

\* keys is the key set of the returned dictionary; the field of a key
\* that is not in it holds a placeholder.
UsageReadError ==
    [kind |-> "error", keys |-> {"error"}, date |-> 0, total_cost |-> 0,
     total_tokens |-> 0, queries_processed |-> 0,
     budget_usage_percent |-> <<0, 1>>, remaining_budget |-> 0]

\* The dictionary built for a day whose hash is missing or empty.
UsageReadZeros(day) ==
    [kind |-> "zeros",
     keys |-> {"date", "total_cost", "total_tokens", "queries_processed",
               "budget_usage_percent"},
     date |-> day, total_cost |-> 0, total_tokens |-> 0,
     queries_processed |-> 0, budget_usage_percent |-> <<0, 1>>,
     remaining_budget |-> 0]

\* The dictionary built from a stored hash by get_daily_usage.
UsageReadEntry(entry, day, daily) ==
    [kind |-> "entry",
     keys |-> {"date", "total_cost", "total_tokens", "queries_processed",
               "budget_usage_percent", "daily_budget", "remaining_budget"},
     date |-> day, total_cost |-> entry.total_cost,
     total_tokens |-> entry.total_tokens,
     queries_processed |-> entry.queries_processed,
     budget_usage_percent |->
         <<Min(entry.total_cost * 100, 100 * daily), daily>>,
     remaining_budget |-> daily - entry.total_cost]

\* Variant: a missing entry is reported as a failed read.
UsageRead_MissingIsError(up, entry, day, daily) ==
    IF ~up \/ ~entry.present \/ daily = 0 THEN UsageReadError
    ELSE UsageReadEntry(entry, day, daily)

\* get_daily_usage on the hash of a day: zeros when HGETALL gives
\* nothing, the stored totals otherwise (the percentage
\* min(cost / daily_budget * 100, 100) kept as a fraction), the error
\* return when the read or the division raises.  The stored
\* fields are looked up under bytes keys, so the totals are those of a
\* client that returns bytes, the redis client's default.
UsageRead(up, entry, day, daily) ==
    IF ~up THEN UsageReadError
    ELSE IF ~entry.present THEN UsageReadZeros(day)
    ELSE IF daily = 0 THEN UsageReadError
    ELSE UsageReadEntry(entry, day, daily)

\* The ledger entry of a day; no hash is ever written for a day before
\* the first.
EntryOf(d) == IF d \in Days THEN daily_usage[d] ELSE NoEntry

\* get_daily_usage up to its await: today's key is made.
CallGetDailyUsage(p) ==
    /\ pc[p] = "idle"
    /\ calls < MaxCalls
    /\ calls' = calls + 1
    /\ chk' = [chk EXCEPT ![p] = [NoChk EXCEPT !.usage_date = today]]
    /\ pc' = [pc EXCEPT ![p] = "get_daily_usage"]
    /\ UNCHANGED <<envVars, storeVars, budget_check, rec, instVars,
                   queryVars, ghostVars>>

\* HGETALL of get_daily_usage is answered or raises: the dictionary of
\* the day whose key was made.
DailyUsageRead(p) ==
    /\ pc[p] = "get_daily_usage"
    /\ budget_check' = [budget_check EXCEPT ![p] =
          UsageRead(redis_up, EntryOf(chk[p].usage_date),
                    chk[p].usage_date, config.daily)]
    /\ chk' = [chk EXCEPT ![p] = NoChk]
    /\ pc' = [pc EXCEPT ![p] = "usage_return"]
    /\ UNCHANGED <<envVars, storeVars, calls, rec, instVars, queryVars,
                   ghostVars>>

\* The values of the parameter days of get_usage_history; range(days) is
\* empty for 0 and for a negative number.
HistoryDays == {-1, 0, 1, 2}

\* What get_usage_history returns: a list of dictionaries.
UsageHistory(list) == [kind |-> "list", list |-> list]

RECURSIVE Reversed(_)
Reversed(seq) ==
    IF seq = <<>> THEN <<>> ELSE Append(Reversed(Tail(seq)), Head(seq))

\* The dictionary get_usage_history appends for a day: the stored totals
\* (the percentage min(cost / daily_budget * 100, 100) kept as a
\* fraction), zeros when HGETALL gives nothing.
HistoryEntry(entry, day, daily) ==
    [keys |-> {"date", "total_cost", "total_tokens", "queries_processed",
               "budget_usage_percent"},
     date |-> day,
     total_cost |-> IF entry.present THEN entry.total_cost ELSE 0,
     total_tokens |-> IF entry.present THEN entry.total_tokens ELSE 0,
     queries_processed |->
         IF entry.present THEN entry.queries_processed ELSE 0,
     budget_usage_percent |->
         IF entry.present
         THEN <<Min(entry.total_cost * 100, 100 * daily), daily>>
         ELSE <<0, 1>>]

\* An iteration of get_usage_history raises: the read when the store is
\* unreachable, the division when a hash is stored and the daily budget
\* is 0.
HistoryReadRaises(up, entry, daily) ==
    ~up \/ (entry.present /\ daily = 0)

\* The locals of get_usage_history at an await: the parameter days, the
\* day whose key was made and the list built so far, newest day first.
HistoryLocals(days, day, history) ==
    [days |-> days, usage_date |-> day, history |-> history]

\* get_usage_history(days) up to its first await, the key of today; for
\* days <= 0 the loop body never runs and the empty list is returned
\* without a read of the store.
CallGetUsageHistory(p) ==
    /\ pc[p] = "idle"
    /\ calls < MaxCalls
    /\ calls' = calls + 1
    /\ \E days \in HistoryDays :
          IF days <= 0
          THEN /\ budget_check' = [budget_check EXCEPT ![p] =
                                      UsageHistory(Reversed(<<>>))]
               /\ pc' = [pc EXCEPT ![p] = "history_return"]
               /\ chk' = [chk EXCEPT ![p] = NoChk]
          ELSE /\ chk' = [chk EXCEPT ![p] =
                             HistoryLocals(days, today, <<>>)]
               /\ pc' = [pc EXCEPT ![p] = "get_usage_history"]
               /\ UNCHANGED budget_check
    /\ UNCHANGED <<envVars, storeVars, rec, instVars, queryVars,
                   ghostVars>>

\* HGETALL of an iteration of get_usage_history is answered or raises.
\* When it raises the handler returns the empty list.  Otherwise the
\* day's dictionary is appended; after the last iteration the list is
\* returned oldest day first, before that the key of the next day back
\* from the current date is made.
HistoryRead(p) ==
    /\ pc[p] = "get_usage_history"
    /\ LET l == chk[p]
           entry == EntryOf(l.usage_date)
           history == Append(l.history,
                             HistoryEntry(entry, l.usage_date,
                                          config.daily))
       IN  IF HistoryReadRaises(redis_up, entry, config.daily)
           THEN /\ budget_check' = [budget_check EXCEPT ![p] =
                                       UsageHistory(<<>>)]
                /\ chk' = [chk EXCEPT ![p] = NoChk]
                /\ pc' = [pc EXCEPT ![p] = "history_return"]
           ELSE IF Len(history) = l.days
           THEN /\ budget_check' = [budget_check EXCEPT ![p] =
                                       UsageHistory(Reversed(history))]
                /\ chk' = [chk EXCEPT ![p] = NoChk]
                /\ pc' = [pc EXCEPT ![p] = "history_return"]
           ELSE /\ chk' = [chk EXCEPT ![p] =
                              HistoryLocals(l.days, today - Len(history),
                                            history)]
                /\ UNCHANGED <<pc, budget_check>>
    /\ UNCHANGED <<envVars, storeVars, calls, rec, instVars, queryVars,
                   ghostVars>>

ReturnUsageRead(p) ==
    /\ pc[p] \in {"usage_return", "history_return"}
    /\ pc' = [pc EXCEPT ![p] = "idle"]
    /\ budget_check' = [budget_check EXCEPT ![p] = NoCheck]
    /\ UNCHANGED <<envVars, storeVars, calls, chk, rec, instVars,
                   queryVars, ghostVars>>

NextGuard ==
    \/ \E p \in Procs : CallPreFlight(p)
    \/ \E p \in Procs : CheckDailyBudget(p)
    \/ \E p \in Procs : DailyExceededRead(p)
    \/ \E p \in Procs : StatusRead(p)
    \/ \E p \in Procs : ReturnPreFlight(p)
    \/ \E p \in Procs : CallRecordUsage(p)
    \/ \E p \in Procs : StoreUsageRecord(p)
    \/ \E p \in Procs : ExpireUsageLog(p)
    \/ \E p \in Procs : UpdateDailyTotals(p)
    \/ \E p \in Procs : ReturnRecordUsage(p)
    \/ \E d \in Days : ResetDailyUsage(d)
    \/ RedisDown
    \/ RedisUp

InitGuard == config \in GuardConfigs /\ InitCommon

SpecGuard == InitGuard /\ [][NextGuard]_vars

\* The budget manager with callers that also read the ledger.
NextLedger ==
    \/ NextGuard
    \/ \E p \in Procs : CallGetDailyUsage(p)
    \/ \E p \in Procs : DailyUsageRead(p)
    \/ \E p \in Procs : CallGetUsageHistory(p)
    \/ \E p \in Procs : HistoryRead(p)
    \/ \E p \in Procs : ReturnUsageRead(p)

\* The configurations of the direct callers, and one with
\* TOKEN_BUDGET_DAILY = 0.0, where the divisions of the readers raise.
LedgerConfigs == GuardConfigs \cup { [daily |-> 0, per_query |-> 700] }

InitLedger == config \in LedgerConfigs /\ InitCommon

SpecLedger == InitLedger /\ [][NextLedger]_vars

\* The calendar day of the serving process changes: date.today() gives
\* the next day from now on.  The record of a call under way keeps the
\* date it was built with; _update_daily_totals takes the date anew.
Midnight ==
    /\ today + 1 \in Days
    /\ today' = today + 1
    /\ UNCHANGED <<config, redis_up, storeVars, pc, calls, guardVars, rec,
                   instVars, queryVars, ghostVars>>

\* The budget manager under its direct callers and readers, over a change
\* of day.
NextMidnight ==
    \/ NextLedger
    \/ Midnight

SpecMidnight == InitGuard /\ [][NextMidnight]_vars

(***************************************************************************)
(* Callers of calculate_cost_estimate alone: each holds the arguments and  *)
(* the returned binary64 value in chk until it returns.                    *)
(***************************************************************************)
CallCostEstimate(p) ==
    /\ pc[p] = "idle"
    /\ \E a \in 0..MaxTokens, b \in 0..MaxTokens :
          chk' = [chk EXCEPT ![p] =
                    [NoChk EXCEPT !.input_tokens = a, !.output_tokens = b,
                                  !.estimated_cost =
                                      calculate_cost_estimate_f64(a, b)]]
    /\ pc' = [pc EXCEPT ![p] = "estimate_return"]
    /\ UNCHANGED <<envVars, storeVars, calls, budget_check, rec, instVars,
                   queryVars, ghostVars>>

ReturnCostEstimate(p) ==
    /\ pc[p] = "estimate_return"
    /\ pc' = [pc EXCEPT ![p] = "idle"]
    /\ chk' = [chk EXCEPT ![p] = NoChk]
    /\ UNCHANGED <<envVars, storeVars, calls, budget_check, rec, instVars,
                   queryVars, ghostVars>>

NextCost ==
    \/ \E p \in Procs : CallCostEstimate(p)
    \/ \E p \in Procs : ReturnCostEstimate(p)

InitCost ==
    /\ config = [daily |-> TOKEN_BUDGET_DAILY,
                 per_query |-> TOKEN_BUDGET_PER_QUERY]
    /\ InitCommon

SpecCost == InitCost /\ [][NextCost]_vars


(***************************************************************************)
(* EnhancedAgentOrchestrator: pure parts.                                  *)
(***************************************************************************)
\* The agents dictionary as api/main.py builds it, with the method each
\* agent object exposes.
AgentMethod ==
    [planner |-> "plan", web_search |-> "search",
     data_analysis |-> "execute", synthesis |-> "synthesize"]

Registered == DOMAIN AgentMethod

\* Variant: a task text of exactly 200 characters is scaled too.
EstimateOutputTokens_Inclusive(agent_name, task_len) ==
    LET base == CASE agent_name = "planner" -> 300
                  [] agent_name = "web_search" -> 500
                  [] agent_name = "data_analysis" -> 400
                  [] agent_name = "synthesis" -> 800
                  [] agent_name = "code_execution" -> 600
                  [] OTHER -> 500
    IN  IF task_len >= 200 THEN (base * 3) \div 2 ELSE base

\* _estimate_output_tokens on the agent name and the length of the task
\* text; int(base * 1.5) is base * 3 \div 2.
EstimateOutputTokens(agent_name, task_len) ==
    LET base == CASE agent_name = "planner" -> 300
                  [] agent_name = "web_search" -> 500
                  [] agent_name = "data_analysis" -> 400
                  [] agent_name = "synthesis" -> 800
                  [] agent_name = "code_execution" -> 600
                  [] OTHER -> 500
    IN  IF task_len > 200 THEN (base * 3) \div 2 ELSE base

\* Callers of _estimate_output_tokens alone: agent names with and without
\* a table entry, task texts around the 200-character threshold.  The
\* caller holds the task in tasks and the returned estimate in chk.
EstimateAgentChoices ==
    {"planner", "web_search", "data_analysis", "synthesis",
     "code_execution", "translator"}

EstimateTaskLenChoices == {0, 199, 200, 201, 400}

CallEstimateOutputTokens(p) ==
    /\ pc[p] = "idle"
    /\ \E a \in EstimateAgentChoices, n \in EstimateTaskLenChoices :
          /\ tasks' = [tasks EXCEPT ![p] =
                <<[agent |-> a, task_len |-> n, depends_on |-> {}]>>]
          /\ chk' = [chk EXCEPT ![p] =
                [NoChk EXCEPT !.output_tokens = EstimateOutputTokens(a, n)]]
    /\ pc' = [pc EXCEPT ![p] = "output_estimate_return"]
    /\ UNCHANGED <<envVars, storeVars, calls, budget_check, rec, instVars,
                   idx, results, total_estimated_cost, agent_result,
                   outcome, ghostVars>>

ReturnEstimateOutputTokens(p) ==
    /\ pc[p] = "output_estimate_return"
    /\ pc' = [pc EXCEPT ![p] = "idle"]
    /\ tasks' = [tasks EXCEPT ![p] = <<>>]
    /\ chk' = [chk EXCEPT ![p] = NoChk]
    /\ UNCHANGED <<envVars, storeVars, calls, budget_check, rec, instVars,
                   idx, results, total_estimated_cost, agent_result,
                   outcome, ghostVars>>

NextEstimate ==
    \/ \E p \in Procs : CallEstimateOutputTokens(p)
    \/ \E p \in Procs : ReturnEstimateOutputTokens(p)

SpecEstimate == InitCost /\ [][NextEstimate]_vars

Digits(n) == IF n < 10 THEN 1 ELSE IF n < 100 THEN 2 ELSE 3

\* len(str(context)) of a dict {index: result}: braces, "k: v" items and
\* ", " separators.  A result is represented by the length of its text;
\* the results are lists and dicts, whose str and repr coincide.
DictStrLen(ctx) ==
    LET keys == DOMAIN ctx
        items == [k \in keys |-> Digits(k) + 2 + ctx[k]]
    IN  IF keys = {} THEN 2
        ELSE 2 + SumOver(keys, items) + 2 * (Cardinality(keys) - 1)

\* len(f"{task}\n\nContext: {str(context)}") // 4
InputTokens(task_len, ctx) == (task_len + 11 + DictStrLen(ctx)) \div 4

\* len(str(result)) // 4
OutputTokens(result) == result \div 4

\* Variant: every declared dependency is looked up; one that has no
\* result yet gives an empty result.
DepResults_All(res, deps) ==
    [d \in deps |-> IF d \in DOMAIN res THEN res[d] ELSE 0]

\* {d: results[d] for d in deps if d in results}
DepResults(res, deps) == [d \in deps \cap DOMAIN res |-> res[d]]

\* Tasks the planner puts in its plans (task text by length) and the
\* results and answers the capabilities give (by length; the synthesis
\* capability may return an empty text).
TaskChoices ==
    { [agent |-> "web_search", task_len |-> 20, depends_on |-> {}],
      [agent |-> "data_analysis", task_len |-> 24, depends_on |-> {0, 1}] }

Plans == UNION { [1..n -> TaskChoices] : n \in 0..(MaxWork - 1) }

ResultChoices == {40}

AnswerChoices == {0, 60}

\* Settings for the orchestrator runs: the defaults, and budgets that a
\* web_search estimate (37620) exceeds per query and that an analysis
\* estimate (30135 and more) exceeds once usage is recorded, with a
\* MAX_AGENTS_PER_QUERY that the longest plans exceed.
OrchConfigs ==
    { [daily |-> TOKEN_BUDGET_DAILY, per_query |-> TOKEN_BUDGET_PER_QUERY,
       max_agents |-> MAX_AGENTS_PER_QUERY],
      [daily |-> 30500, per_query |-> 30500, max_agents |-> 2] }

\* Variant: a plan of exactly the maximum length is refused too.
TooManyTasks_Inclusive(n_tasks, max_agents) == n_tasks >= max_agents

\* len(tasks) > settings.MAX_AGENTS_PER_QUERY
TooManyTasks(n_tasks, max_agents) == n_tasks > max_agents

Task(q) == tasks[q][idx[q] + 1]

\* Variant: the agent is given no context.
Context_Empty(q) == DepResults(<<>>, Task(q).depends_on)

Context(q) == DepResults(results[q], Task(q).depends_on)

(***************************************************************************)
(* EnhancedAgentOrchestrator.execute, one action per suspension point:     *)
(* the planner call, the reads of the pre-flight check, the agent call,    *)
(* the three store awaits of record_usage and the synthesis call.  The    *)
(* code between two suspension points runs with the step that precedes     *)
(* it.  Task indices are 0-based as in the code.  The store stays          *)
(* available in this specification.                                        *)
(***************************************************************************)
\* The classes of what a capability (planner, agent, synthesis) raises:
\* a subclass of Exception, or a class that derives from BaseException
\* only.  asyncio.CancelledError stands for the latter: KeyboardInterrupt
\* and SystemExit take the same way through the handlers.
CapabilityRaises == {"Exception", "CancelledError"}

\* The class of the exception raised where a failure starts inside the
\* orchestrator: an agent name missing from the agents dictionary is a
\* KeyError; the division of the metrics collector is a
\* ZeroDivisionError; the orchestrator raises the other three itself.
RaisedKind(cause) ==
    CASE cause = "too_many_agents" -> "AgentExecutionException"
      [] cause = "unknown_agent_type" -> "AgentExecutionException"
      [] cause = "budget_exceeded" -> "TokenBudgetException"
      [] cause = "unknown_agent" -> "KeyError"
      [] cause = "metrics_failed" -> "ZeroDivisionError"

\* The failures raised inside the try of the task loop (lines 86-118).
InTaskTry(cause) ==
    cause \in {"budget_exceeded", "unknown_agent_type", "agent_failed"}

\* The classes "except Exception" catches, among those met here.
ExceptionClasses ==
    {"Exception", "KeyError", "ZeroDivisionError", "TokenBudgetException",
     "AgentExecutionException"}

\* except Exception as e: raise AgentExecutionException(f"Agent ...")
TaskHandler(kind) ==
    IF kind \in ExceptionClasses THEN "AgentExecutionException" ELSE kind

\* Variant: the outer handler wraps the application's own exceptions only
\* and lets any other pass.
ExecuteHandler_OwnOnly(kind) ==
    IF kind \in {"TokenBudgetException", "AgentExecutionException"}
    THEN "AgentExecutionException" ELSE kind

\* except Exception as e: raise AgentExecutionException(f"Query ...")
ExecuteHandler(kind) ==
    IF kind \in ExceptionClasses THEN "AgentExecutionException" ELSE kind

\* What leaves execute for a failure of the given cause that started as
\* an exception of class kind.
Reraised(cause, kind) ==
    ExecuteHandler(IF InTaskTry(cause) THEN TaskHandler(kind) ELSE kind)

\* origin is the class of the exception the failure started as, raised
\* the class of the one that leaves execute.
FailedOutcome(cause, kind) ==
    [NoOutcome EXCEPT !.status = "FAILED",
                      !.origin = kind,
                      !.raised = Reraised(cause, kind),
                      !.error = cause]

\* Variant: the failure is swallowed and the query goes on to synthesis.
Fail_KeepsGoing(o, q, cause, kind, h) ==
    /\ pc' = [pc EXCEPT ![q] = "synthesis"]
    /\ outcome' = [o EXCEPT ![q] = FailedOutcome(cause, kind)]
    /\ hist' = [hist EXCEPT ![q] = [h EXCEPT !.phases = Append(@, "FAILED")]]
    /\ chk' = [chk EXCEPT ![q] = NoChk]
    /\ budget_check' = [budget_check EXCEPT ![q] = NoCheck]

\* An exception of class kind leaves the try of execute: the handler
\* "except Exception" re-raises it as AgentExecutionException, any other
\* class passes it.  o is what the callers of the other queries hold
\* when the step is taken.
Fail(o, q, cause, kind, h) ==
    /\ pc' = [pc EXCEPT ![q] = "failed"]
    /\ outcome' = [o EXCEPT ![q] = FailedOutcome(cause, kind)]
    /\ hist' = [hist EXCEPT ![q] = [h EXCEPT !.phases = Append(@, "FAILED")]]
    /\ chk' = [chk EXCEPT ![q] = NoChk]
    /\ budget_check' = [budget_check EXCEPT ![q] = NoCheck]

\* A failure inside the try of the task loop: "except Exception" wraps
\* it as AgentExecutionException("Agent <agent_name> failed: ...") before
\* the outer handler re-raises it, so the message names the agent; an
\* exception of any other class passes both handlers as it is, with its
\* own message.
FailTask(o, q, cause, kind, agent_name, h) ==
    /\ pc' = [pc EXCEPT ![q] = "failed"]
    /\ outcome' = [o EXCEPT ![q] =
                     [FailedOutcome(cause, kind) EXCEPT
                         !.failed_agent = IF kind \in ExceptionClasses
                                          THEN agent_name ELSE "none"]]
    /\ hist' = [hist EXCEPT ![q] = [h EXCEPT !.phases = Append(@, "FAILED")]]
    /\ chk' = [chk EXCEPT ![q] = NoChk]
    /\ budget_check' = [budget_check EXCEPT ![q] = NoCheck]

\* What _pre_flight_agent_check hands to execute: the dictionary of
\* pre_flight_check, or, for anything raised inside (the budget exception
\* is an Exception too), the fail-open dictionary.
WrappedCheck(bc) ==
    IF bc.outcome = "raised"
    THEN [NoCheck EXCEPT !.outcome = "fail_open", !.approved = TRUE,
                         !.store_seen = bc.store_seen]
    ELSE bc

\* The context argument of the agent call of
\* _execute_agent_with_budget_tracking: agent.execute(task,
\* context=context) and agent.synthesize(query=task, results=context) hand
\* the dependency context over, agent.search(task) has no argument for it.
Handed(method, ctx) ==
    IF method = "search"
    THEN [handed |-> FALSE, context |-> <<>>]
    ELSE [handed |-> TRUE, context |-> ctx]

\* pre_flight_check has returned or raised bc_raw for task i of query q:
\* the wrapper, the approved test of execute and the dispatch of the agent
\* call in _execute_agent_with_budget_tracking.
Dispatch(o, q, t, i, ctx, bc_raw, h) ==
    LET bc == WrappedCheck(bc_raw)
        h1 == [h EXCEPT !.rejected = IF bc_raw.outcome = "raised"
                                     THEN @ \cup {i} ELSE @]
    IN  IF ~bc.approved
        THEN FailTask(o, q, "budget_exceeded",
                      RaisedKind("budget_exceeded"), t.agent, h1)
        ELSE IF AgentMethod[t.agent] = "plan"
        THEN FailTask(o, q, "unknown_agent_type",
                      RaisedKind("unknown_agent_type"), t.agent, h1)
        ELSE /\ pc' = [pc EXCEPT ![q] = "agent_call"]
             /\ budget_check' = [budget_check EXCEPT ![q] = bc]
             /\ chk' = [chk EXCEPT ![q] = NoChk]
             /\ hist' = [hist EXCEPT ![q] =
                           [h1 EXCEPT !.invoked = Append(@, i),
                                      !.contexts = Append(@,
                                          Handed(AgentMethod[t.agent],
                                                 ctx))]]
             /\ outcome' = o

\* The text of the query caller q hands to execute; the callers' texts
\* differ.
QueryText(q) == 10 * q

\* Variant: the synthesis is given the text of the query the instance
\* started last.
SynthesisArgs_InstanceQuery(query, res) ==
    [query |-> QueryText(current_query_id), results |-> res]

\* synthesize(query=query, results=results): the parameter of execute and
\* the results dictionary of the task loop.
SynthesisArgs(query, res) == [query |-> query, results |-> res]

\* The head of "for i, task in enumerate(tasks)" for index i with the
\* results map res: after the last task the synthesis call; otherwise the
\* dependency lookup, the agent lookup, the token estimates and
\* pre_flight_check up to its first read.
Enter(o, q, plan, i, res, h) ==
    IF i = Len(plan)
    THEN /\ pc' = [pc EXCEPT ![q] = "synthesis"]
         /\ hist' = [hist EXCEPT ![q] =
                       [h EXCEPT !.synthesized = @ + 1,
                                 !.synthesis_args =
                                     Append(@, SynthesisArgs(h.query, res)),
                                 !.phases = Append(@, "SYNTHESIZING")]]
         /\ chk' = [chk EXCEPT ![q] = NoChk]
         /\ budget_check' = [budget_check EXCEPT ![q] = NoCheck]
         /\ outcome' = o
    ELSE LET t == plan[i + 1]
             input_tokens ==
                 InputTokens(t.task_len, DepResults(res, t.depends_on))
             output_tokens == EstimateOutputTokens(t.agent, t.task_len)
             est == calculate_cost_estimate(input_tokens, output_tokens)
             hc == [h EXCEPT !.checked = @ + 1]
         IN  IF t.agent \notin Registered
             THEN Fail(o, q, "unknown_agent", RaisedKind("unknown_agent"), h)
             ELSE IF check_per_query_budget(est, config.per_query)
             THEN /\ pc' = [pc EXCEPT ![q] = "check_daily_budget"]
                  /\ chk' = [chk EXCEPT ![q] =
                        [input_tokens |-> input_tokens,
                         output_tokens |-> output_tokens,
                         estimated_cost |-> est, current_usage |-> 0,
                         usage_date |-> today,
                         store_seen |-> {redis_up}]]
                  /\ budget_check' = [budget_check EXCEPT ![q] = NoCheck]
                  /\ hist' = [hist EXCEPT ![q] = hc]
                  /\ outcome' = o
             ELSE Dispatch(o, q, t, i, DepResults(res, t.depends_on),
                           RaisedDecision(est, "per_query_budget",
                                          config.per_query, {redis_up}), hc)

Start(q) ==
    /\ pc[q] = "idle"
    /\ calls < MaxWork
    /\ calls' = calls + 1
    /\ pc' = [pc EXCEPT ![q] = "planning"]
    /\ current_query_id' = q
    /\ current_query_cost' = 0
    /\ agent_costs' = <<>>
    \* the attribute is bound to a new dictionary: the ones returned
    \* before are no longer the instance's
    /\ outcome' = [p \in Procs |->
                     [outcome[p] EXCEPT !.agent_costs_shared = FALSE]]
    /\ LET active == {p \in Procs \ {q} :
                         pc[p] \notin {"idle", "complete", "failed"}}
       IN  hist' = [p \in Procs |->
                     IF p = q
                     THEN [hist[q] EXCEPT !.query = QueryText(q),
                                          !.phases = Append(@, "PLANNING"),
                                          !.overlapped = (active # {})]
                     ELSE IF p \in active
                     THEN [hist[p] EXCEPT !.overlapped = TRUE]
                     ELSE hist[p]]
    /\ UNCHANGED <<envVars, storeVars, guardVars, rec, tasks, idx, results,
                   total_estimated_cost, agent_result, issued, faults>>

PlanReturn(q) ==
    /\ pc[q] = "planning"
    /\ \E plan \in Plans :
          /\ calls + Len(plan) <= MaxWork
          /\ calls' = calls + Len(plan)
          /\ tasks' = [tasks EXCEPT ![q] = plan]
          /\ IF TooManyTasks(Len(plan), config.max_agents)
             THEN /\ Fail(outcome, q, "too_many_agents",
                       RaisedKind("too_many_agents"), hist[q])
                  /\ UNCHANGED <<idx, results, total_estimated_cost>>
             ELSE /\ idx' = [idx EXCEPT ![q] = 0]
                  /\ results' = [results EXCEPT ![q] = <<>>]
                  /\ total_estimated_cost' =
                        [total_estimated_cost EXCEPT ![q] = 0]
                  /\ Enter(outcome, q, plan, 0, <<>>,
                           [hist[q] EXCEPT
                               !.phases = Append(@, "EXECUTING")])
    /\ UNCHANGED <<envVars, storeVars, rec, instVars, agent_result, issued,
                   faults>>

\* Plans that name an agent missing from the agents dictionary, or the
\* planner, which has none of the methods the dispatch looks for.
OddTaskChoices ==
    { [agent |-> "translator", task_len |-> 20, depends_on |-> {}],
      [agent |-> "planner", task_len |-> 20, depends_on |-> {}] }

OddPlans ==
    { <<t>> : t \in OddTaskChoices }
    \cup { <<[agent |-> "data_analysis", task_len |-> 24,
              depends_on |-> {0, 1}], t>> : t \in OddTaskChoices }

\* A plan whose web_search task depends on the task before it.
SearchPlans ==
    { <<[agent |-> "data_analysis", task_len |-> 24,
         depends_on |-> {0, 1}],
        [agent |-> "web_search", task_len |-> 20, depends_on |-> {0}]>> }

\* The planner returns one of the given plans: the same steps of execute
\* as in PlanReturn.
PlanReturnFrom(q, plans) ==
    /\ pc[q] = "planning"
    /\ \E plan \in plans :
          /\ calls + Len(plan) <= MaxWork
          /\ calls' = calls + Len(plan)
          /\ tasks' = [tasks EXCEPT ![q] = plan]
          /\ IF TooManyTasks(Len(plan), config.max_agents)
             THEN /\ Fail(outcome, q, "too_many_agents",
                       RaisedKind("too_many_agents"), hist[q])
                  /\ UNCHANGED <<idx, results, total_estimated_cost>>
             ELSE /\ idx' = [idx EXCEPT ![q] = 0]
                  /\ results' = [results EXCEPT ![q] = <<>>]
                  /\ total_estimated_cost' =
                        [total_estimated_cost EXCEPT ![q] = 0]
                  /\ Enter(outcome, q, plan, 0, <<>>,
                           [hist[q] EXCEPT
                               !.phases = Append(@, "EXECUTING")])
    /\ UNCHANGED <<envVars, storeVars, rec, instVars, agent_result, issued,
                   faults>>

\* Variant: a planner failure is noted but the query goes on to synthesis.
PlanRaise_Synthesizes(q) ==
    /\ pc[q] = "planning"
    /\ pc' = [pc EXCEPT ![q] = "synthesis"]
    /\ outcome' = [outcome EXCEPT ![q] = FailedOutcome("planner_failed", "Exception")]
    /\ hist' = [hist EXCEPT ![q] =
                  [@ EXCEPT !.synthesized = @ + 1,
                            !.phases = Append(@, "SYNTHESIZING")]]
    /\ chk' = [chk EXCEPT ![q] = NoChk]
    /\ budget_check' = [budget_check EXCEPT ![q] = NoCheck]
    /\ UNCHANGED <<envVars, storeVars, calls, rec, instVars, tasks, idx,
                   results, total_estimated_cost, agent_result, issued,
                   faults>>

\* planner.plan(query) raises: the outer handler of execute re-raises
\* an Exception and passes any other class.
PlanRaise(q) ==
    /\ pc[q] = "planning"
    /\ \E kind \in CapabilityRaises :
          Fail(outcome, q, "planner_failed", kind, hist[q])
    /\ UNCHANGED <<envVars, storeVars, calls, rec, instVars, tasks, idx,
                   results, total_estimated_cost, agent_result, issued,
                   faults>>

\* The read of line 146 and the approved return, into the agent call.
ApprovedRead(q) ==
    /\ pc[q] = "status_read"
    /\ LET current_usage ==
               ReadDailyUsage(redis_up, daily_usage[chk[q].usage_date])
       IN  Dispatch(outcome, q, Task(q), idx[q], Context(q),
                    ApprovedDecision(chk[q].estimated_cost, current_usage,
                                     config,
                                     chk[q].store_seen \cup {redis_up}),
                    hist[q])
    /\ UNCHANGED <<envVars, storeVars, calls, rec, instVars, tasks, idx,
                   results, total_estimated_cost, agent_result, issued,
                   faults>>

\* The read of line 139 and the raise of the daily budget exception.
RejectedRead(q) ==
    /\ pc[q] = "daily_exceeded_read"
    /\ LET current_usage ==
               ReadDailyUsage(redis_up, daily_usage[chk[q].usage_date])
       IN  Dispatch(outcome, q, Task(q), idx[q], Context(q),
                    RaisedDecision(chk[q].estimated_cost,
                                   "remaining_daily_budget",
                                   config.daily - current_usage,
                                   chk[q].store_seen \cup {redis_up}),
                    hist[q])
    /\ UNCHANGED <<envVars, storeVars, calls, rec, instVars, tasks, idx,
                   results, total_estimated_cost, agent_result, issued,
                   faults>>

\* The agent returns: _record_agent_usage estimates the tokens and enters
\* record_usage with self.current_query_id.
AgentReturn(q) ==
    /\ pc[q] = "agent_call"
    /\ \E r \in ResultChoices :
          /\ agent_result' = [agent_result EXCEPT ![q] = r]
          /\ RecordUsageEnter(q, InputTokens(Task(q).task_len, Context(q)),
                              OutputTokens(r), Task(q).agent,
                              current_query_id)
    /\ UNCHANGED <<envVars, storeVars, calls, guardVars, instVars, tasks,
                   idx, results, total_estimated_cost, outcome, ghostVars>>

\* Variant: a failed agent call is made once more (MAX_RETRIES_PER_AGENT
\* is a setting no code reads).
AgentRaise_Retry(q) ==
    /\ pc[q] = "agent_call"
    /\ Len(hist[q].invoked) = idx[q] + 1
    /\ hist' = [hist EXCEPT ![q].invoked = Append(@, idx[q]),
                            ![q].contexts = Append(@,
                                Handed(AgentMethod[Task(q).agent],
                                       Context(q)))]
    /\ UNCHANGED <<envVars, storeVars, pc, calls, guardVars, rec, instVars,
                   queryVars, issued, faults>>

\* Variant: the exception of the agent is swallowed and the task is
\* started over from its budget check.
AgentRaise_StartsOver(q) ==
    /\ pc[q] = "agent_call"
    /\ Enter(outcome, q, tasks[q], idx[q], results[q], hist[q])
    /\ UNCHANGED <<envVars, storeVars, calls, rec, instVars, tasks, idx,
                   results, total_estimated_cost, agent_result, issued,
                   faults>>

\* The agent raises: no usage is recorded; the handlers of execute wrap
\* and re-raise an Exception and pass any other class.
AgentRaise(q) ==
    /\ pc[q] = "agent_call"
    /\ \E kind \in CapabilityRaises :
          FailTask(outcome, q, "agent_failed", kind, Task(q).agent, hist[q])
    /\ UNCHANGED <<envVars, storeVars, calls, rec, instVars, tasks, idx,
                   results, total_estimated_cost, agent_result, issued,
                   faults>>

\* Variant: the cost is added to what the agent name already holds.
SetAgentCost_Accumulate(costs, name, cost) ==
    [a \in DOMAIN costs \cup {name} |->
        IF a = name
        THEN (IF a \in DOMAIN costs THEN costs[a] ELSE 0) + cost
        ELSE costs[a]]

\* self.agent_costs[agent_name] = agent_cost
SetAgentCost(costs, name, cost) ==
    [a \in DOMAIN costs \cup {name} |-> IF a = name THEN cost ELSE costs[a]]

\* Variant: the result of the task is not stored.
SetResult_Dropped(res, i, r) == res

\* results[i] = result
SetResult(res, i, r) ==
    [k \in DOMAIN res \cup {i} |-> IF k = i THEN r ELSE res[k]]

\* The outcomes held by callers after self.agent_costs is updated in
\* place to costs: a returned cost_breakdown whose agent_costs is that
\* same object shows the update.
SharedAgentCosts(costs) ==
    [p \in Procs |->
        IF outcome[p].agent_costs_shared
        THEN [outcome[p] EXCEPT !.agent_costs = costs]
        ELSE outcome[p]]

\* Variant: a failing pipeline is not swallowed; it fails the task and
\* with it the query.
RecordedUpdate_FailsOnOutage(q) ==
    /\ pc[q] = "update_daily_totals"
    /\ IF redis_up
       THEN /\ daily_usage' = [daily_usage EXCEPT ![rec[q].incr_date] =
                 PipelineIncr(@, rec[q].cost, rec[q].total_tokens)]
            /\ faults' = faults
            /\ agent_costs' = SetAgentCost(agent_costs, rec[q].agent_name,
                                           rec[q].cost)
            /\ current_query_cost' = current_query_cost + rec[q].cost
            /\ results' = [results EXCEPT ![q] =
                             SetResult(@, idx[q], agent_result[q])]
            /\ total_estimated_cost' = [total_estimated_cost EXCEPT ![q] =
                                          @ + budget_check[q].estimated_cost]
            /\ idx' = [idx EXCEPT ![q] = @ + 1]
            /\ agent_result' = [agent_result EXCEPT ![q] = 0]
            /\ rec' = [rec EXCEPT ![q] = NoRecord]
            /\ Enter(SharedAgentCosts(SetAgentCost(agent_costs,
                                                    rec[q].agent_name,
                                                    rec[q].cost)),
                     q, tasks[q], idx[q] + 1,
                     SetResult(results[q], idx[q], agent_result[q]),
                     [hist[q] EXCEPT !.recorded = Append(@, rec[q].cost)])
       ELSE /\ faults' = faults \cup {"incr_failed"}
            /\ FailTask(outcome, q, "agent_failed", "Exception",
                        Task(q).agent, hist[q])
            /\ UNCHANGED <<daily_usage, agent_costs, current_query_cost,
                           results, total_estimated_cost, idx, agent_result,
                           rec>>
    /\ UNCHANGED <<envVars, usage_log, calls, current_query_id, tasks,
                   issued>>

\* The pipeline of _update_daily_totals, then the return of record_usage:
\* the cost bookkeeping of _record_agent_usage on the instance fields,
\* results[i] = result, the estimate sum, and the next iteration.
RecordedUpdate(q) ==
    /\ pc[q] = "update_daily_totals"
    /\ IF redis_up
       THEN /\ daily_usage' = [daily_usage EXCEPT ![rec[q].incr_date] =
                 PipelineIncr(@, rec[q].cost, rec[q].total_tokens)]
            /\ faults' = faults
       ELSE /\ daily_usage' = daily_usage
            /\ faults' = faults \cup {"incr_failed"}
    /\ agent_costs' = SetAgentCost(agent_costs, rec[q].agent_name,
                                   rec[q].cost)
    /\ current_query_cost' = current_query_cost + rec[q].cost
    /\ results' = [results EXCEPT ![q] =
                     SetResult(@, idx[q], agent_result[q])]
    /\ total_estimated_cost' = [total_estimated_cost EXCEPT ![q] =
                                  @ + budget_check[q].estimated_cost]
    /\ idx' = [idx EXCEPT ![q] = @ + 1]
    /\ agent_result' = [agent_result EXCEPT ![q] = 0]
    /\ rec' = [rec EXCEPT ![q] = NoRecord]
    /\ Enter(SharedAgentCosts(SetAgentCost(agent_costs, rec[q].agent_name,
                                            rec[q].cost)),
             q, tasks[q], idx[q] + 1,
             SetResult(results[q], idx[q], agent_result[q]),
             [hist[q] EXCEPT !.recorded = Append(@, rec[q].cost)])
    /\ UNCHANGED <<envVars, usage_log, calls, current_query_id, tasks,
                   issued>>

\* MetricsCollector.record_cost computes
\* (self.cost_used / settings.TOKEN_BUDGET_DAILY) * 100: a float division,
\* which raises ZeroDivisionError for a daily budget of 0 whatever the
\* cost.
RecordCostRaises(daily) == daily = 0

\* The synthesis call returns: execute records its metrics and returns
\* the result dictionary; when record_cost raises, the outer handler
\* re-raises and nothing is returned.
SynthReturn(q) ==
    /\ pc[q] = "synthesis"
    /\ \E a \in AnswerChoices :
          IF RecordCostRaises(config.daily)
          THEN Fail(outcome, q, "metrics_failed",
                    RaisedKind("metrics_failed"),
                    [hist[q] EXCEPT !.reply = Append(@, a)])
          ELSE /\ outcome' = [outcome EXCEPT ![q] =
                    [status |-> "COMPLETE", answer |-> a,
                     steps |-> tasks[q],
                     intermediate_results |-> results[q],
                     total_cost |-> current_query_cost,
                     agent_costs |-> agent_costs,
                     estimated_cost |-> total_estimated_cost[q],
                     error |-> "none", raised |-> "none",
                     origin |-> "none", failed_agent |-> "none",
                     agent_costs_shared |-> TRUE]]
               /\ pc' = [pc EXCEPT ![q] = "complete"]
               /\ hist' = [hist EXCEPT ![q] =
                             [@ EXCEPT !.reply = Append(@, a),
                                       !.phases = Append(@, "COMPLETE")]]
               /\ UNCHANGED guardVars
    /\ UNCHANGED <<envVars, storeVars, calls, rec, instVars,
                   tasks, idx, results, total_estimated_cost, agent_result,
                   issued, faults>>

\* Variant: a failed synthesis call is made once more.
SynthRaise_Retry(q) ==
    /\ pc[q] = "synthesis"
    /\ hist[q].synthesized = 1
    /\ hist' = [hist EXCEPT ![q].synthesized = @ + 1]
    /\ UNCHANGED <<envVars, storeVars, pc, calls, guardVars, rec, instVars,
                   queryVars, issued, faults>>

\* The synthesis call raises: the outer handler of execute re-raises an
\* Exception and passes any other class.
SynthRaise(q) ==
    /\ pc[q] = "synthesis"
    /\ \E kind \in CapabilityRaises :
          Fail(outcome, q, "synthesis_failed", kind, hist[q])
    /\ UNCHANGED <<envVars, storeVars, calls, rec, instVars, tasks, idx,
                   results, total_estimated_cost, agent_result, issued,
                   faults>>

Next ==
    \/ \E q \in Procs : Start(q)
    \/ \E q \in Procs : PlanReturn(q)
    \/ \E q \in Procs : PlanRaise(q)
    \/ \E q \in Procs : CheckDailyBudget(q)
    \/ \E q \in Procs : ApprovedRead(q)
    \/ \E q \in Procs : RejectedRead(q)
    \/ \E q \in Procs : AgentReturn(q)
    \/ \E q \in Procs : AgentRaise(q)
    \/ \E q \in Procs : StoreUsageRecord(q)
    \/ \E q \in Procs : ExpireUsageLog(q)
    \/ \E q \in Procs : RecordedUpdate(q)
    \/ \E q \in Procs : SynthReturn(q)
    \/ \E q \in Procs : SynthRaise(q)

Init == config \in OrchConfigs /\ InitCommon

Spec == Init /\ [][Next]_vars

(***************************************************************************)
(* The same orchestrator under a clock: TIMEOUT_SECONDS and                *)
(* AGENT_TIMEOUT_SECONDS are settings of core/config.py that no code       *)
(* reads, and execute awaits the agent without wait_for or any other       *)
(* deadline.  The passing of a query's deadline during an agent call is    *)
(* therefore a step of the environment that changes nothing in the         *)
(* program; the history notes that it happened.                            *)
(***************************************************************************)
DeadlineElapses(q) ==
    /\ pc[q] = "agent_call"
    /\ ~hist[q].deadline_elapsed
    /\ hist' = [hist EXCEPT ![q].deadline_elapsed = TRUE]
    /\ UNCHANGED <<envVars, storeVars, pc, calls, guardVars, rec, instVars,
                   queryVars, issued, faults>>

NextDeadline ==
    \/ Next
    \/ \E q \in Procs : DeadlineElapses(q)

SpecDeadline == Init /\ [][NextDeadline]_vars

\* A result as long as the 400 output tokens estimated for an analysis
\* task (len(str(result)) = 1600), so that the recorded cost of the task
\* equals its estimate.
LongResultChoices == {1600}

\* The agent returns a long result; record_usage is entered as after any
\* other result.
AgentReturnLong(q) ==
    /\ pc[q] = "agent_call"
    /\ \E r \in LongResultChoices :
          /\ agent_result' = [agent_result EXCEPT ![q] = r]
          /\ RecordUsageEnter(q, InputTokens(Task(q).task_len, Context(q)),
                              OutputTokens(r), Task(q).agent,
                              current_query_id)
    /\ UNCHANGED <<envVars, storeVars, calls, guardVars, instVars, tasks,
                   idx, results, total_estimated_cost, outcome, ghostVars>>

\* The orchestrator runs with agents whose results may be long.
NextCeiling ==
    \/ Next
    \/ \E q \in Procs : AgentReturnLong(q)

SpecCeiling == Init /\ [][NextCeiling]_vars

\* The planner returns a plan that names an unregistered agent or the
\* planner.
PlanReturnOdd(q) == PlanReturnFrom(q, OddPlans)

\* The planner returns a plan with a dependent web_search task.
PlanReturnSearch(q) == PlanReturnFrom(q, SearchPlans)

\* The orchestrator with a planner that may also return a plan with a
\* dependent web_search task.
NextSearch ==
    \/ Next
    \/ \E q \in Procs : PlanReturnSearch(q)

SpecSearch == Init /\ [][NextSearch]_vars

\* The orchestrator with a planner that may also return odd plans.
NextKinds ==
    \/ Next
    \/ \E q \in Procs : PlanReturnOdd(q)

\* A configuration with TOKEN_BUDGET_DAILY = 0.0.
ZeroDailyConfigs ==
    { [daily |-> 0, per_query |-> TOKEN_BUDGET_PER_QUERY,
       max_agents |-> MAX_AGENTS_PER_QUERY] }

InitKinds == config \in OrchConfigs \cup ZeroDailyConfigs /\ InitCommon

SpecKinds == InitKinds /\ [][NextKinds]_vars

\* The orchestrator under the default settings and under the same
\* settings with a daily budget of 0.
DefaultConfig ==
    [daily |-> TOKEN_BUDGET_DAILY, per_query |-> TOKEN_BUDGET_PER_QUERY,
     max_agents |-> MAX_AGENTS_PER_QUERY]

InitZeroDaily == config \in {DefaultConfig} \cup ZeroDailyConfigs /\ InitCommon

SpecZeroDaily == InitZeroDaily /\ [][Next]_vars

\* The steps of query q that are returns or raises of the calls execute
\* awaits: the planner, the store reads of the pre-flight check, the
\* agent, the store writes of record_usage, the synthesis.
QueryStep(q) ==
    \/ PlanReturn(q)
    \/ PlanRaise(q)
    \/ CheckDailyBudget(q)
    \/ ApprovedRead(q)
    \/ RejectedRead(q)
    \/ AgentReturn(q)
    \/ AgentRaise(q)
    \/ StoreUsageRecord(q)
    \/ ExpireUsageLog(q)
    \/ RecordedUpdate(q)
    \/ SynthReturn(q)
    \/ SynthRaise(q)

\* Two callers of execute, which may run at the same time.
FairProcs == {1, 2}

NextFair ==
    \/ \E q \in FairProcs : Start(q)
    \/ \E q \in FairProcs : QueryStep(q)

\* Every call a query awaits eventually returns or raises.
SpecFair ==
    /\ Init
    /\ [][NextFair]_vars
    /\ \A q \in FairProcs : WF_vars(QueryStep(q))

\* One caller of execute at a time, over a store that goes away and comes
\* back at any moment of the run.
SoloProcs == {1}

NextOutage ==
    \/ \E q \in SoloProcs : Start(q)
    \/ \E q \in SoloProcs : PlanReturn(q)
    \/ \E q \in SoloProcs : PlanRaise(q)
    \/ \E q \in SoloProcs : CheckDailyBudget(q)
    \/ \E q \in SoloProcs : ApprovedRead(q)
    \/ \E q \in SoloProcs : RejectedRead(q)
    \/ \E q \in SoloProcs : AgentReturn(q)
    \/ \E q \in SoloProcs : AgentRaise(q)
    \/ \E q \in SoloProcs : StoreUsageRecord(q)
    \/ \E q \in SoloProcs : ExpireUsageLog(q)
    \/ \E q \in SoloProcs : RecordedUpdate(q)
    \/ \E q \in SoloProcs : SynthReturn(q)
    \/ \E q \in SoloProcs : SynthRaise(q)
    \/ RedisDown
    \/ RedisUp

SpecOutage == Init /\ [][NextOutage]_vars

\* Budgets for the orchestrator runs in which each of the two caps decides:
\* a web_search estimate (37620) exceeds the per-query cap, an analysis
\* estimate (30135 and more) fits it, also on top of what the query has
\* cost already, and exceeds the rest of the daily budget once two tasks
\* are recorded.
CapConfigs ==
    { [daily |-> 31500, per_query |-> 30500,
       max_agents |-> MAX_AGENTS_PER_QUERY] }

InitCaps == config \in CapConfigs /\ InitCommon

SpecCaps == InitCaps /\ [][Next]_vars

(***************************************************************************)
(* The API handler execute_query over the base AgentOrchestrator.  The     *)
(* only suspension point of a request is the planner call: the agents      *)
(* registered in main.py are the web search agent, which has no execute    *)
(* method, and two mock agents that return without suspending, so the      *)
(* task loop and the synthesis run in the step in which the plan arrives.  *)
(***************************************************************************)
\* The agents dictionary of main.py: name -> has an execute method.
ApiAgents ==
    [planner |-> FALSE, web_search |-> FALSE, data_analysis |-> TRUE,
     synthesis |-> FALSE]

\* len(str(e)) of what agents[name] / agent.execute raises: the KeyError
\* of a name that is not registered, the AttributeError of a registered
\* agent without execute (by class name); 0 when the call succeeds.
ApiAgentErrorLen(name) ==
    IF name \notin DOMAIN ApiAgents THEN Len(name) + 2
    ELSE IF ApiAgents[name] THEN 0
    ELSE CASE name = "web_search" -> 50
           [] name = "synthesis" -> 54
           [] OTHER -> 48

ApiAgentErrorKind(name) ==
    IF name \notin DOMAIN ApiAgents THEN "KeyError"
    ELSE IF ApiAgents[name] THEN "none" ELSE "AttributeError"

ApiTaskChoices ==
    { [agent |-> "web_search", task_len |-> 20, depends_on |-> {}],
      [agent |-> "data_analysis", task_len |-> 24, depends_on |-> {0}],
      [agent |-> "code_execution", task_len |-> 16, depends_on |-> {}] }

ApiPlans == UNION { [1..n -> ApiTaskChoices] : n \in 0..(MaxWork - 1) }

\* Lengths of the query text and of the message of a planner exception.
QueryChoices == {0, 12}
PlannerErrorChoices == {0, 40}

\* len(str(...)) of the dictionary MockDataAnalysisAgent.execute returns.
MockAnalysisLen(task_len) == 83 + task_len

\* len of the text MockSynthesisAgent.synthesize returns.
MockSynthesisLen(query_len, n_results) == 78 + query_len + Digits(n_results)

\* Variant: the handler answers with the bare exception message.
ErrorResponse_BareMessage(kind, msg_len) ==
    [answer |-> msg_len, steps |-> <<>>, intermediate_results |-> <<>>,
     execution_time |-> 0, error |-> kind, escaped |-> FALSE]

\* The except branch of execute_query: answer is
\* "Error executing query: " followed by str(e).  error (the kind of the
\* exception caught) and escaped (whether an exception left the handler)
\* are not fields of QueryResponse; they record what happened.
ErrorResponse(kind, msg_len) ==
    [answer |-> 23 + msg_len, steps |-> <<>>, intermediate_results |-> <<>>,
     execution_time |-> 0, error |-> kind, escaped |-> FALSE]

\* An exception that "except Exception" does not catch leaves
\* execute_query: no QueryResponse is built.
EscapedResponse(kind) ==
    [answer |-> 0, steps |-> <<>>, intermediate_results |-> <<>>,
     execution_time |-> 0, error |-> kind, escaped |-> TRUE]

\* The return of the try branch; execution_time is a positive clock
\* difference.
OkResponse(answer, plan, res, elapsed) ==
    [answer |-> answer, steps |-> plan, intermediate_results |-> res,
     execution_time |-> elapsed, error |-> "none", escaped |-> FALSE]

ElapsedChoices == {5}

\* len of the "major.minor" of the installed pydantic, which the text of
\* a validation error carries in its URL: "2.9" or "2.13".  core/config.py
\* imports pydantic_settings, so the major version is 2.
PydanticVersionLens == {3, 4}

\* len(str(e)) of the ValidationError QueryResponse(...) raises for a
\* results dictionary with the integer keys 0..n-1, n > 0 (a pydantic 2
\* takes no int for the str key of Dict[str, Any]): the line
\* "<n> validation error(s) for QueryResponse" and, for each key k,
\* "intermediate_results.<k>.[key]", "  Input should be a valid string
\* [type=string_type, input_value=<k>, input_type=int]" and "    For
\* further information visit
\* https://errors.pydantic.dev/<major.minor>/v/string_type", each
\* preceded by a newline.
ValidationErrorLen(n, version_len) ==
    Digits(n) + 35 + (IF n > 1 THEN 1 ELSE 0)
    + SumOver(0..(n - 1),
              [k \in 0..(n - 1) |-> 187 + 2 * Digits(k) + version_len])

\* Indices (0-based) of the tasks of a plan whose agent lookup or call
\* raises.
ApiFailing(plan) ==
    { i \in 0..(Len(plan) - 1) : ApiAgentErrorKind(plan[i + 1].agent) # "none" }

ApiFirst(S) == CHOOSE i \in S : \A j \in S : i <= j

\* The task loop of AgentOrchestrator.execute from index i on, for agents
\* that expose execute: result_of gives what the call for an index
\* returns, and the loop is followed as far as those results reach.
\* Yields the results map and the calls agent.execute(task, context) made.
RECURSIVE BaseLoop(_, _, _, _, _)
BaseLoop(plan, result_of, i, res, made) ==
    IF i = Len(plan) THEN [results |-> res, invocations |-> made]
    ELSE LET task == plan[i + 1]
             deps == task.depends_on
             dep_results == [d \in deps \cap DOMAIN res |-> res[d]]
             call == [index |-> i, agent |-> task.agent,
                      task_len |-> task.task_len, context |-> dep_results]
         IN  IF i \notin DOMAIN result_of
             THEN [results |-> res, invocations |-> Append(made, call)]
             ELSE BaseLoop(plan, result_of, i + 1,
                           [k \in DOMAIN res \cup {i} |->
                               IF k = i THEN result_of[i] ELSE res[k]],
                           Append(made, call))

ApiStart(p) ==
    /\ pc[p] = "idle"
    /\ calls < MaxWork
    /\ calls' = calls + 1
    /\ pc' = [pc EXCEPT ![p] = "api_planning"]
    /\ UNCHANGED <<envVars, storeVars, guardVars, rec, instVars, queryVars,
                   ghostVars>>

\* The planner returns a plan and AgentOrchestrator.execute runs to its
\* end.  The query text is an input of the request; it is first used by
\* the synthesis, so it is drawn here.  QueryResponse declares
\* intermediate_results as Dict[str, Any] and is given the integer keys
\* of results: for a non-empty results dictionary its construction (line
\* 73, inside the try) raises a ValidationError, which the except branch
\* answers.
ApiPlanReturn(p) ==
    /\ pc[p] = "api_planning"
    /\ \E plan \in ApiPlans, query_len \in QueryChoices,
          elapsed \in ElapsedChoices :
          /\ calls + Len(plan) <= MaxWork
          /\ calls' = calls + Len(plan)
          /\ LET bad == ApiFailing(plan)
                 k == ApiFirst(bad)
                 res == [i \in 0..(Len(plan) - 1) |->
                            MockAnalysisLen(plan[i + 1].task_len)]
             IN  IF bad # {}
                 THEN /\ idx' = [idx EXCEPT ![p] = k]
                      /\ outcome' = [outcome EXCEPT ![p] =
                            ErrorResponse(ApiAgentErrorKind(plan[k + 1].agent),
                                          ApiAgentErrorLen(plan[k + 1].agent))]
                 ELSE /\ idx' = [idx EXCEPT ![p] = Len(plan)]
                      /\ IF res = <<>>
                         THEN outcome' = [outcome EXCEPT ![p] =
                                 OkResponse(MockSynthesisLen(query_len, 0),
                                            plan, res, elapsed)]
                         ELSE \E version_len \in PydanticVersionLens :
                                 outcome' = [outcome EXCEPT ![p] =
                                    ErrorResponse("ValidationError",
                                       ValidationErrorLen(Len(plan),
                                                          version_len))]
          /\ tasks' = [tasks EXCEPT ![p] = plan]
    /\ pc' = [pc EXCEPT ![p] = "responded"]
    /\ UNCHANGED <<envVars, storeVars, guardVars, rec, instVars, results,
                   total_estimated_cost, agent_result, ghostVars>>

\* The planner call raises (the API call, or json.loads of its text):
\* the except branch answers an Exception; any other class leaves the
\* handler.
ApiPlanRaise(p) ==
    /\ pc[p] = "api_planning"
    /\ \E kind \in CapabilityRaises, msg_len \in PlannerErrorChoices :
          outcome' = [outcome EXCEPT ![p] =
                        IF kind \in ExceptionClasses
                        THEN ErrorResponse("planner_failed", msg_len)
                        ELSE EscapedResponse(kind)]
    /\ pc' = [pc EXCEPT ![p] = "responded"]
    /\ UNCHANGED <<envVars, storeVars, calls, guardVars, rec, instVars,
                   tasks, idx, results, total_estimated_cost, agent_result,
                   ghostVars>>

NextApi ==
    \/ \E p \in Procs : ApiStart(p)
    \/ \E p \in Procs : ApiPlanReturn(p)
    \/ \E p \in Procs : ApiPlanRaise(p)

InitApi ==
    /\ config = [daily |-> TOKEN_BUDGET_DAILY,
                 per_query |-> TOKEN_BUDGET_PER_QUERY]
    /\ InitCommon

SpecApi == InitApi /\ [][NextApi]_vars

(***************************************************************************)
(* Properties of the budget guard and the ledger (SpecGuard).              *)
(***************************************************************************)
PreFlightPcs ==
    {"check_daily_budget", "daily_exceeded_read", "status_read",
     "preflight_return"}

LedgerTotal == daily_usage[today].total_cost

\* C2: a request whose estimated cost exceeds the per-query budget is
\* rejected by pre_flight_check with the per-query budget as the violated
\* limit, whatever the day's ledger total is: it never reaches the daily
\* check and is never approved.
C2_PerQueryCapRejects ==
    \A p \in Procs :
        (pc[p] \in PreFlightPcs /\ chk[p].estimated_cost > config.per_query)
            => /\ pc[p] = "preflight_return"
               /\ budget_check[p].outcome = "raised"
               /\ ~budget_check[p].approved
               /\ budget_check[p].cited_limit = "per_query_budget"

\* A request over the per-query cap is rejected while the ledger is partly
\* used and the request would not fit the remaining daily budget either.
C2_Witness ==
    \E p \in Procs :
        /\ pc[p] = "preflight_return"
        /\ chk[p].estimated_cost > config.per_query
        /\ budget_check[p].outcome = "raised"
        /\ LedgerTotal > 0
        /\ chk[p].estimated_cost > config.daily - LedgerTotal

\* The ledger total under the key the read of caller p is waiting on:
\* that of the day the read was called on.
KeyedTotal(p) == daily_usage[chk[p].usage_date].total_cost

\* C3: with the ledger readable, a request that fits the per-query budget
\* but exceeds daily_budget - total_cost(today) at the daily check is sent
\* to the rejection branch, and that branch raises the budget exception
\* naming the remaining daily budget (daily_budget minus the total it
\* reads), never the per-query budget.
C3_DailyCapRejects ==
    [][\A p \in Procs :
        /\ ( /\ pc[p] = "check_daily_budget"
             /\ pc'[p] # pc[p]
             /\ redis_up
             /\ chk[p].estimated_cost <= config.per_query
             /\ chk[p].estimated_cost > config.daily - KeyedTotal(p) )
           => pc'[p] = "daily_exceeded_read"
        /\ ( pc[p] = "daily_exceeded_read" /\ pc'[p] # pc[p] )
           => /\ pc'[p] = "preflight_return"
              /\ budget_check'[p].outcome = "raised"
              /\ ~budget_check'[p].approved
              /\ budget_check'[p].cited_limit = "remaining_daily_budget"
              /\ redis_up =>
                    budget_check'[p].cited_amount
                       = config.daily - KeyedTotal(p)
      ]_vars

\* A request under the per-query cap has been rejected for the remaining
\* daily budget, with every read of the call answered and a ledger that is
\* partly used.
C3_Witness ==
    \E p \in Procs :
        /\ pc[p] = "preflight_return"
        /\ budget_check[p].outcome = "raised"
        /\ budget_check[p].cited_limit = "remaining_daily_budget"
        /\ budget_check[p].store_seen = {TRUE}
        /\ chk[p].estimated_cost <= config.per_query
        /\ budget_check[p].cited_amount < chk[p].estimated_cost
        /\ budget_check[p].cited_amount > 0
        /\ budget_check[p].cited_amount < config.daily


\* C4 as stated: whenever the store was unavailable throughout a check,
\* the check returns approved = true, whatever the estimated cost.
C4_FailOpenAlways ==
    \A p \in Procs :
        (pc[p] = "preflight_return" /\ budget_check[p].store_seen = {FALSE})
            => /\ budget_check[p].approved
               /\ budget_check[p].outcome # "raised"

\* What pre_flight_check does instead when the store was unavailable
\* throughout a check: _get_daily_usage turns the failed read into a
\* usage of 0, so the check compares the estimate with both budgets as
\* if nothing had been spent, approves when it exceeds neither and
\* otherwise raises the budget exception.
OutageReadAsZero ==
    \A p \in Procs :
        (pc[p] = "preflight_return" /\ budget_check[p].store_seen = {FALSE})
            => /\ budget_check[p].outcome \in {"approved", "raised"}
               /\ budget_check[p].approved
                     <=> ( /\ chk[p].estimated_cost <= config.per_query
                           /\ chk[p].estimated_cost <= config.daily )
               /\ budget_check[p].approved
                     => /\ budget_check[p].outcome = "approved"
                        /\ budget_check[p].current_daily_usage = 0
                        /\ budget_check[p].estimated_cost
                               = chk[p].estimated_cost
               /\ ~budget_check[p].approved
                     => budget_check[p].outcome = "raised"

\* A check made while the store was down raised the daily budget
\* exception for an estimate within the per-query budget.
OutageRejectedOnDaily ==
    \E p \in Procs :
        /\ pc[p] = "preflight_return"
        /\ budget_check[p].store_seen = {FALSE}
        /\ budget_check[p].outcome = "raised"
        /\ budget_check[p].cited_limit = "remaining_daily_budget"
        /\ chk[p].estimated_cost <= config.per_query
        /\ chk[p].estimated_cost > config.daily

\* A check made while the store was down approved a request that the real
\* ledger total would have rejected.
OutageApprovedOverBudget ==
    \E p \in Procs :
        /\ pc[p] = "preflight_return"
        /\ budget_check[p].store_seen = {FALSE}
        /\ budget_check[p].approved
        /\ chk[p].estimated_cost > config.daily - LedgerTotal

\* C5: pre_flight_check is read-only.  No step that enters or advances a
\* check changes the ledger entry of any day or the usage log; the only
\* steps that change them are the two store operations of record_usage
\* and the administrative reset.
C5_CheckReadOnly ==
    [][ /\ \A p \in Procs :
              (pc'[p] \in PreFlightPcs /\ pc'[p] # pc[p])
                  => UNCHANGED <<daily_usage, usage_log>>
        /\ (daily_usage' # daily_usage \/ usage_log' # usage_log)
              => \/ \E p \in Procs :
                       /\ pc[p] \in {"store_usage_record",
                                     "update_daily_totals"}
                       /\ pc'[p] # pc[p]
                 \/ /\ pc' = pc
                    /\ usage_log' = usage_log
                    /\ \E d \in Days :
                          /\ daily_usage[d].present
                          /\ daily_usage' =
                                [daily_usage EXCEPT ![d] = NoEntry]
      ]_vars

\* A check has returned an approval that reports usage while the day's
\* ledger entry and usage log hold recorded usage.
C5_Witness ==
    \E p \in Procs :
        /\ pc[p] = "preflight_return"
        /\ budget_check[p].outcome = "approved"
        /\ budget_check[p].current_daily_usage > 0
        /\ daily_usage[today].present
        /\ Len(usage_log[today]) > 0

\* C6: no update is lost.  Whenever no increment is in flight and no
\* increment met an unavailable store (and no reset was made), each day's
\* total_cost, total_tokens and queries_processed are the sums of the
\* costs, the token counts and the number of the increments issued by all
\* callers, however the callers were interleaved.
C6_NoLostUpdate ==
    ( /\ \A p \in Procs : pc[p] # "update_daily_totals"
      /\ faults \cap {"incr_failed", "reset"} = {} )
        => \A d \in Days :
              /\ daily_usage[d].total_cost = issued[d].cost
              /\ daily_usage[d].total_tokens = issued[d].tokens
              /\ daily_usage[d].queries_processed = issued[d].n

\* Two callers are inside record_usage at the same time and both of their
\* increments have been applied.
C6_Witness ==
    \E p, q \in Procs :
        /\ p # q
        /\ pc[p] = "record_return"
        /\ pc[q] = "record_return"
        /\ faults \cap {"incr_failed", "reset"} = {}
        /\ daily_usage[today].queries_processed = 2
        /\ daily_usage[today].total_cost = rec[p].cost + rec[q].cost

\* C14: in every step the three totals of every day's ledger entry stay
\* or grow, whoever checks, records or reads; the only step that lowers
\* them is the administrative reset of that day, which removes the entry.
C14_LedgerMonotone ==
    [][\A d \in Days :
          \/ /\ daily_usage'[d].total_cost >= daily_usage[d].total_cost
             /\ daily_usage'[d].total_tokens >= daily_usage[d].total_tokens
             /\ daily_usage'[d].queries_processed
                   >= daily_usage[d].queries_processed
          \/ /\ daily_usage[d].present
             /\ daily_usage'[d] = NoEntry
             /\ redis_up
             /\ pc' = pc]_vars

\* The day's entry was reset after one usage and holds a second usage
\* recorded after the reset.
C14_Witness ==
    /\ "reset" \in faults
    /\ daily_usage[today].present
    /\ daily_usage[today].queries_processed = 1
    /\ issued[today].n = 2

\* The dictionary the iteration of get_usage_history that p completes in
\* this step has appended: the first of the returned list, which is
\* reversed, or the last of the list built so far.
AppendedEntry(p) ==
    IF pc'[p] = "history_return" THEN budget_check'[p].list[1]
    ELSE chk'[p].history[Len(chk'[p].history)]

\* C20: a read of a day that has no ledger entry, with the store
\* reachable, returns that day with total_cost, total_tokens and
\* queries_processed all 0 and no error, and the pre-flight read of the
\* day's cost gives 0; whether nothing was ever charged to the day or its
\* entry was removed by a reset makes no difference.
C20_MissingEntryReadsZero ==
    [][\A p \in Procs :
          /\ ( /\ pc[p] = "get_daily_usage"
               /\ pc'[p] = "usage_return"
               /\ redis_up
               /\ ~EntryOf(chk[p].usage_date).present )
             => /\ budget_check'[p].kind = "zeros"
                /\ budget_check'[p].date = chk[p].usage_date
                /\ budget_check'[p].total_cost = 0
                /\ budget_check'[p].total_tokens = 0
                /\ budget_check'[p].queries_processed = 0
          /\ ( /\ pc[p] = "get_usage_history"
               /\ chk'[p] # chk[p]
               /\ redis_up
               /\ ~EntryOf(chk[p].usage_date).present )
             => /\ pc'[p] = "history_return"
                   => Len(budget_check'[p].list) = chk[p].days
                /\ "error" \notin AppendedEntry(p).keys
                /\ AppendedEntry(p).date = chk[p].usage_date
                /\ AppendedEntry(p).total_cost = 0
                /\ AppendedEntry(p).total_tokens = 0
                /\ AppendedEntry(p).queries_processed = 0
          /\ ( /\ pc[p] = "check_daily_budget"
               /\ pc'[p] # pc[p]
               /\ redis_up
               /\ ~EntryOf(chk[p].usage_date).present )
             => chk'[p].current_usage = 0]_vars

\* A usage was charged to today and its increment landed, the entry was
\* then reset, and a caller now holds the zeros read of today.
C20_Witness ==
    \E p \in Procs :
        /\ pc[p] = "usage_return"
        /\ budget_check[p].kind = "zeros"
        /\ budget_check[p].date = today
        /\ issued[today].n >= 1
        /\ faults = {"reset"}
        /\ ~daily_usage[today].present
        /\ \A r \in Procs \ {p} : pc[r] = "idle"

\* The part of C21 that get_daily_usage meets: with the store unreachable
\* it returns the error dictionary, not usage figures.
UsageReadReportsOutage(p) ==
    (pc[p] = "get_daily_usage" /\ pc'[p] = "usage_return")
    => budget_check'[p].kind = "error"

\* The same of get_usage_history, which returns the empty list instead.
HistoryReportsOutage(p) ==
    (pc[p] = "get_usage_history" /\ pc'[p] = "history_return")
    => budget_check'[p].kind = "error"

\* C21: while the store is unreachable, the ledger increment does not end
\* in the normal return of record_usage, the pre-flight read of the day's
\* cost does not go on as if a value had been read, and get_daily_usage
\* and get_usage_history return an error; none of them yields a normal
\* value or drops the increment silently.
C21_OutageReported ==
    [][\A p \in Procs :
          ~redis_up =>
             /\ (pc[p] = "update_daily_totals" /\ pc'[p] # pc[p])
                => pc'[p] # "record_return"
             /\ (pc[p] = "check_daily_budget" /\ pc'[p] # pc[p])
                => pc'[p] \notin {"status_read", "daily_exceeded_read"}
             /\ UsageReadReportsOutage(p)
             /\ HistoryReportsOutage(p)]_vars

StatusKeys ==
    {"total_cost", "total_tokens", "queries_processed",
     "budget_usage_percent", "remaining_budget"}

\* The status record r agrees with the ledger entry it was read from.
StatusMatches(r, entry, daily) ==
    /\ r.total_cost = entry.total_cost
    /\ r.total_tokens = entry.total_tokens
    /\ r.queries_processed = entry.queries_processed
    /\ r.budget_usage_percent[1] * daily
          = Min(100 * entry.total_cost, 100 * daily)
              * r.budget_usage_percent[2]
    /\ "remaining_budget" \in r.keys
       => r.remaining_budget = daily - entry.total_cost

\* The part of C24 that holds, for a daily budget above 0: the figures
\* returned are those of the ledger entry, and a day with an entry gets
\* all five fields.
StatusOfStoredEntry ==
    [][\A p \in Procs :
          ( /\ pc[p] = "get_daily_usage"
            /\ pc'[p] = "usage_return"
            /\ config.daily > 0
            /\ redis_up )
          => /\ StatusMatches(budget_check'[p],
                              EntryOf(chk[p].usage_date), config.daily)
             /\ EntryOf(chk[p].usage_date).present
                => StatusKeys \subseteq budget_check'[p].keys]_vars

\* C24: read with the store reachable, the budget status of today has
\* the fields total_cost, total_tokens, queries_processed,
\* budget_usage_percent and remaining_budget in every ledger state, a day
\* without entry included, with remaining_budget = daily_budget -
\* total_cost and budget_usage_percent = min(100, 100 * total_cost /
\* daily_budget).
C24_StatusRecord ==
    [][\A p \in Procs :
          ( /\ pc[p] = "get_daily_usage"
            /\ pc'[p] = "usage_return"
            /\ redis_up )
          => /\ StatusKeys \subseteq budget_check'[p].keys
             /\ StatusMatches(budget_check'[p],
                              EntryOf(chk[p].usage_date),
                              config.daily)]_vars

\* No record_usage call is between its entry and its return.
RecordAtRest ==
    \A p \in Procs :
        pc[p] \notin {"store_usage_record", "expire_usage_log",
                      "update_daily_totals", "record_return"}

\* The records logged for day d, by position in the day's log.
LogCosts(d) == [n \in DOMAIN usage_log[d] |-> usage_log[d][n].cost]

LogTokens(d) == [n \in DOMAIN usage_log[d] |-> usage_log[d][n].total_tokens]

\* The ledger entry of day d holds the sums over the day's log.
LedgerMatchesLog(d) ==
    /\ daily_usage[d].total_cost = SumOver(DOMAIN usage_log[d], LogCosts(d))
    /\ daily_usage[d].total_tokens =
          SumOver(DOMAIN usage_log[d], LogTokens(d))
    /\ daily_usage[d].queries_processed = Len(usage_log[d])

\* C31: at rest (no record_usage call in progress, no store failure met
\* and no reset made) every day's ledger entry equals the sums over that
\* day's usage records: total_cost the sum of their costs, total_tokens
\* the sum of their token counts, queries_processed their number.
C31_LedgerMatchesLogAtRest ==
    (RecordAtRest /\ faults = {}) => \A d \in Days : LedgerMatchesLog(d)

\* The same while the day does not change.
LedgerMatchesLogSameDay ==
    (RecordAtRest /\ faults = {} /\ today = 1)
        => \A d \in Days : LedgerMatchesLog(d)

(***************************************************************************)
(* Properties of calculate_cost_estimate (SpecCost).                       *)
(***************************************************************************)
Estimated(p) == pc[p] = "estimate_return"

\* Raising either token count never lowers the estimate.
CostMonotone ==
    \A p \in Procs :
        Estimated(p) =>
           LET a == chk[p].input_tokens
               b == chk[p].output_tokens
           IN  /\ F64Leq(chk[p].estimated_cost,
                         calculate_cost_estimate_f64(a + 1, b))
               /\ F64Leq(chk[p].estimated_cost,
                         calculate_cost_estimate_f64(a, b + 1))

\* estimate(a + c, b + d) = estimate(a, b) + estimate(c, d).
CostAdditive ==
    \A p, r \in Procs :
        (Estimated(p) /\ Estimated(r)) =>
           calculate_cost_estimate_f64(
               chk[p].input_tokens + chk[r].input_tokens,
               chk[p].output_tokens + chk[r].output_tokens)
             = F64Add(chk[p].estimated_cost, chk[r].estimated_cost)

\* estimate(k * a, k * b) = k * estimate(a, b).
CostHomogeneous ==
    \A p \in Procs :
        Estimated(p) =>
           \A k \in 0..MaxFactor :
               calculate_cost_estimate_f64(k * chk[p].input_tokens,
                                           k * chk[p].output_tokens)
                 = F64MulNat(k, chk[p].estimated_cost)

\* C23: the cost estimate of non-negative token counts is monotonically
\* non-decreasing in each argument, additive and homogeneous of degree 1.
C23_CostLinear == CostMonotone /\ CostAdditive /\ CostHomogeneous

\* C26: a pre-flight decision produced while a ledger read failed is the
\* fail-open decision: approved, with estimated_cost = 0 and the error
\* attached.
C26_FailOpenCarriesZero ==
    [][\A p \in Procs :
          ( /\ pc[p] = "status_read"
            /\ pc'[p] = "preflight_return"
            /\ ~redis_up )
          => /\ budget_check'[p].approved
             /\ budget_check'[p].outcome = "fail_open"
             /\ budget_check'[p].estimated_cost = 0]_vars

(***************************************************************************)
(* Properties of _estimate_output_tokens (SpecEstimate).                   *)
(***************************************************************************)
OutputEstimated(p) == pc[p] = "output_estimate_return"

AgentTable ==
    [planner |-> 300, web_search |-> 500, data_analysis |-> 400,
     synthesis |-> 800, code_execution |-> 600]

TableValue(a) == IF a \in DOMAIN AgentTable THEN AgentTable[a] ELSE 500

\* C27: the output-token estimate is the table value of the agent name
\* (500 for a name without entry), and 1.5 times that, truncated, exactly
\* when the task text is longer than 200 characters.
C27_OutputEstimate ==
    \A p \in Procs :
        OutputEstimated(p) =>
           LET t == tasks[p][1]
               e == chk[p].output_tokens
           IN  /\ t.task_len <= 200 => e = TableValue(t.agent)
               /\ t.task_len > 200
                  => /\ 2 * e <= 3 * TableValue(t.agent)
                     /\ 3 * TableValue(t.agent) < 2 * (e + 1)

\* One caller holds the unscaled estimate of a 200-character task of an
\* agent without table entry, another the scaled estimate of a
\* 201-character task of the same agent.
C27_Witness ==
    \E p, r \in Procs :
        /\ OutputEstimated(p) /\ OutputEstimated(r)
        /\ tasks[p][1].agent = "translator"
        /\ tasks[r][1].agent = "translator"
        /\ tasks[p][1].task_len = 200 /\ chk[p].output_tokens = 500
        /\ tasks[r][1].task_len = 201 /\ chk[r].output_tokens = 750

(***************************************************************************)
(* Properties of EnhancedAgentOrchestrator.execute (Spec).                 *)
(***************************************************************************)
SumSeq(sq) == SumOver(DOMAIN sq, sq)

Indices(sq) == {sq[i] : i \in DOMAIN sq}

Terminal(q) == pc[q] \in {"complete", "failed"}

\* The state of section 4.5 a query is in, by its position in execute.
State(q) ==
    CASE pc[q] = "idle" -> "NONE"
      [] pc[q] = "planning" -> "PLANNING"
      [] pc[q] = "synthesis" -> "SYNTHESIZING"
      [] pc[q] = "complete" -> "COMPLETE"
      [] pc[q] = "failed" -> "FAILED"
      [] OTHER -> "EXECUTING"

\* C1: a task whose estimate the budget guard rejects is never handed to
\* its agent, no later task is, and the query is FAILED with the
\* budget-exceeded condition.
C1_RejectionAbortsQuery ==
    \A q \in Procs : \A k \in hist[q].rejected :
        /\ k \notin Indices(hist[q].invoked)
        /\ \A j \in Indices(hist[q].invoked) : j < k
        /\ pc[q] = "failed"
        /\ outcome[q].error = "budget_exceeded"

\* What a query's own recorded tasks give for agent_costs: per agent name,
\* the cost recorded for the last of its tasks run by that agent.
OwnAgentCosts(q) ==
    LET n == Len(hist[q].recorded)
        names == {tasks[q][i].agent : i \in 1..n}
        last(a) == CHOOSE i \in 1..n :
                      /\ tasks[q][i].agent = a
                      /\ \A j \in 1..n : tasks[q][j].agent = a => j <= i
    IN  [a \in names |-> hist[q].recorded[last(a)]]

\* C7: the cost breakdown a query returns reflects only the usage recorded
\* for its own tasks, however the execute() calls on the instance
\* interleave.
C7_IndependentContexts ==
    \A q \in Procs :
        pc[q] = "complete"
            => /\ outcome[q].total_cost = SumSeq(hist[q].recorded)
               /\ outcome[q].agent_costs = OwnAgentCosts(q)

AllowedTransitions ==
    { <<"PLANNING", "EXECUTING">>, <<"EXECUTING", "SYNTHESIZING">>,
      <<"SYNTHESIZING", "COMPLETE">>, <<"PLANNING", "FAILED">>,
      <<"EXECUTING", "FAILED">>, <<"SYNTHESIZING", "FAILED">> }

PhasesFollowMachine(q) ==
    LET ph == hist[q].phases
    IN  /\ (ph = <<>>) <=> (pc[q] = "idle")
        /\ ph # <<>> => /\ ph[1] = "PLANNING"
                        /\ ph[Len(ph)] = State(q)
        /\ \A i \in 1..(Len(ph) - 1) : <<ph[i], ph[i + 1]>> \in AllowedTransitions

\* An outcome without the agent_costs dictionary, which is an object the
\* caller shares with the orchestrator.
OwnFields(oc) ==
    [oc EXCEPT !.agent_costs = <<>>, !.agent_costs_shared = FALSE]

TerminalFrozen(q) ==
    Terminal(q) => /\ pc'[q] = pc[q]
                   /\ hist'[q] = hist[q]
                   /\ OwnFields(outcome'[q]) = OwnFields(outcome[q])
                   /\ rec'[q] = rec[q]
                   /\ chk'[q] = chk[q]

\* C8: the phases a query goes through start at PLANNING and follow only
\* PLANNING -> EXECUTING -> SYNTHESIZING -> COMPLETE or a step to FAILED
\* from one of the first three; once a query is COMPLETE or FAILED its
\* position, its agent, synthesis and recording history and its state,
\* answer, steps, results and totals never change again.
C8_StateMachine ==
    /\ [](\A q \in Procs : PhasesFollowMachine(q))
    /\ [][\A q \in Procs : TerminalFrozen(q)]_vars

\* One query is COMPLETE after recording a task and another is FAILED from
\* SYNTHESIZING.
C8_Witness ==
    \E q1, q2 \in Procs :
        /\ hist[q1].phases =
              <<"PLANNING", "EXECUTING", "SYNTHESIZING", "COMPLETE">>
        /\ Len(hist[q1].recorded) >= 1
        /\ hist[q2].phases =
              <<"PLANNING", "EXECUTING", "SYNTHESIZING", "FAILED">>

\* C9: when task k is rejected by the budget guard or its agent raises,
\* the query is FAILED, no agent of a later task and no synthesis is
\* invoked, and the ledger and the log keep what the query recorded for
\* tasks 0..k-1.
C9_FailureAbortsKeepsUsage ==
    \A q \in Procs : \A k \in 0..(Len(tasks[q]) - 1) :
        (\/ k \in hist[q].rejected
         \/ (pc[q] = "failed" /\ outcome[q].error = "agent_failed"
             /\ idx[q] = k))
            => /\ pc[q] = "failed"
               /\ \A j \in Indices(hist[q].invoked) : j <= k
               /\ hist[q].synthesized = 0
               /\ Len(hist[q].recorded) = k
               /\ LedgerTotal >= SumSeq(hist[q].recorded)
               /\ Len(usage_log[today]) >= Len(hist[q].recorded)

\* The dependency context execute built for task i of query q: the stored
\* results of the declared dependencies that completed before it.
ContextAt(q, i) ==
    DepResults([d \in {e \in DOMAIN results[q] : e < i} |-> results[q][d]],
               tasks[q][i + 1].depends_on)

\* C11: the context handed to the agent of task i holds exactly the
\* results of the declared dependencies that completed before task i
\* started; a dependency on task i itself, on a later task or on an index
\* outside the plan is left out, and the task runs all the same.
C11_ContextOmitsMissingDeps ==
    \A q \in Procs :
        /\ Len(hist[q].contexts) = Len(hist[q].invoked)
        /\ \A n \in DOMAIN hist[q].invoked :
              LET i == hist[q].invoked[n]
                  ctx == hist[q].contexts[n].context
              IN  /\ i = n - 1
                  /\ DOMAIN ctx = {d \in tasks[q][i + 1].depends_on : d < i}
                  /\ \A d \in DOMAIN ctx : ctx[d] = results[q][d]
        /\ pc[q] = "complete" => Len(hist[q].invoked) = Len(tasks[q])

\* The same for the calls that have a context argument: every agent but
\* web_search.
ExecuteContextExact ==
    \A q \in Procs : \A n \in DOMAIN hist[q].invoked :
        LET i == hist[q].invoked[n]
            h == hist[q].contexts[n]
        IN  /\ h.handed <=> AgentMethod[tasks[q][i + 1].agent] # "search"
            /\ h.handed => h.context = ContextAt(q, i)
            /\ DOMAIN ContextAt(q, i) =
                  {d \in tasks[q][i + 1].depends_on : d < i}

\* The agent of a web_search task whose dependency had completed was
\* called without the dependency's result.
SearchWithoutContext ==
    \E q \in Procs : \E n \in DOMAIN hist[q].invoked :
        /\ tasks[q][n].agent = "web_search"
        /\ ContextAt(q, n - 1) # <<>>
        /\ ~hist[q].contexts[n].handed

\* A query completed a plan whose first task names itself and a later
\* index as dependencies and whose second task was given the result of
\* the first only.
C11_Witness ==
    \E q \in Procs :
        /\ pc[q] = "complete"
        /\ Len(tasks[q]) = 2
        /\ tasks[q][1].depends_on = {0, 1}
        /\ tasks[q][2].depends_on = {0, 1}
        /\ hist[q].contexts[1] = Handed("execute", <<>>)
        /\ DOMAIN hist[q].contexts[2].context = {0}

\* C12: the agents of a query are called in plan order, one at a time:
\* the n-th call is for task n-1, at most one call is not yet completed
\* and stored, and while the call for task i is in flight the results of
\* exactly the tasks 0..i-1 are stored.
C12_SequentialNoOverlap ==
    \A q \in Procs :
        /\ \A n \in DOMAIN hist[q].invoked : hist[q].invoked[n] = n - 1
        /\ Len(hist[q].invoked) - Cardinality(DOMAIN results[q]) \in {0, 1}
        /\ pc[q] = "agent_call"
              => /\ Len(hist[q].invoked) = idx[q] + 1
                 /\ DOMAIN results[q] = 0..(idx[q] - 1)

\* The agent of a second task that declares no dependency is in flight
\* after the first task's result was stored.
C12_Witness ==
    \E q \in Procs :
        /\ pc[q] = "agent_call"
        /\ idx[q] = 1
        /\ tasks[q][2].depends_on = {}
        /\ DOMAIN results[q] = {0}

\* The positions in today's usage log of the records logged under the
\* query id of q, and the sum of their cost fields.
LogRecordsOf(q) ==
    {n \in DOMAIN usage_log[today] : usage_log[today][n].query_id = q}

LogCostOf(q) ==
    SumOver(LogRecordsOf(q), [n \in LogRecordsOf(q) |-> usage_log[today][n].cost])

SoloComplete(q) == pc[q] = "complete" /\ ~hist[q].overlapped

\* C13 as stated: a query that ran alone and is COMPLETE returns as
\* total_cost the sum of the costs of its usage records, one per task, and
\* a non-empty answer.
C13_SoloTotalAndAnswer ==
    \A q \in Procs :
        SoloComplete(q)
            => /\ outcome[q].total_cost = LogCostOf(q)
               /\ Cardinality(LogRecordsOf(q)) = Len(tasks[q])
               /\ outcome[q].answer > 0

\* C13, amended: a query that ran alone and is COMPLETE returns as
\* total_cost the sum of the costs of its usage records, one per task;
\* its answer is the text the synthesis capability returned, empty or
\* not.
C13_SoloTotalIsRecordedSum ==
    \A q \in Procs :
        SoloComplete(q)
            => /\ outcome[q].total_cost = LogCostOf(q)
               /\ outcome[q].total_cost = SumSeq(hist[q].recorded)
               /\ Cardinality(LogRecordsOf(q)) = Len(tasks[q])
               /\ outcome[q].answer \in AnswerChoices
               /\ hist[q].reply = <<outcome[q].answer>>

\* Two queries ran one after the other, each alone and each with one
\* task: the log holds the records of both and each query returned the
\* cost of its own.
C13_Witness ==
    \E q, p \in Procs :
        /\ p # q
        /\ SoloComplete(q) /\ SoloComplete(p)
        /\ Len(tasks[q]) = 1 /\ Len(tasks[p]) = 1
        /\ Len(usage_log[today]) = 2
        /\ outcome[q].total_cost > 0
        /\ outcome[q].total_cost # outcome[p].total_cost
        /\ outcome[q].answer > 0

Planned(q) == pc[q] \notin {"idle", "planning"} /\ outcome[q].error # "planner_failed"

\* C15: a plan longer than MAX_AGENTS_PER_QUERY takes the query from
\* PLANNING to FAILED with the too-many-tasks error before any pre-flight
\* check, agent call or usage record is made for it; a plan of at most
\* the maximum length never fails that way.
C15_TooManyTasksRejected ==
    \A q \in Procs :
        Planned(q)
            => /\ Len(tasks[q]) > config.max_agents
                  => /\ pc[q] = "failed"
                     /\ outcome[q].error = "too_many_agents"
                     /\ hist[q].phases = <<"PLANNING", "FAILED">>
                     /\ hist[q].checked = 0
                     /\ hist[q].invoked = <<>>
                     /\ hist[q].recorded = <<>>
                     /\ hist[q].synthesized = 0
               /\ Len(tasks[q]) <= config.max_agents
                  => outcome[q].error # "too_many_agents"

\* A three-task plan was refused under a maximum of two while the ledger
\* and the log are empty.
C15_Witness ==
    \E q \in Procs :
        /\ pc[q] = "failed"
        /\ outcome[q].error = "too_many_agents"
        /\ Len(tasks[q]) = 3
        /\ config.max_agents = 2
        /\ ~daily_usage[today].present
        /\ usage_log[today] = <<>>

\* C16: once the deadline of a query has elapsed during an agent call,
\* the query is either still at that call (the instant of the deadline)
\* or FAILED with a timeout; it never goes on with the result of the
\* call.
C16_DeadlineFailsQuery ==
    \A q \in Procs :
        hist[q].deadline_elapsed
            => \/ pc[q] = "agent_call"
               \/ pc[q] = "failed" /\ outcome[q].error = "timeout"

\* C17: no task's agent is invoked twice within a query, and when an
\* agent raises the query is FAILED by an AgentExecutionException that
\* names the agent of the failing task, that call being the last one the
\* query made.
C17_NoRetries ==
    \A q \in Procs :
        /\ \A m, n \in DOMAIN hist[q].invoked :
              m # n => hist[q].invoked[m] # hist[q].invoked[n]
        /\ outcome[q].error = "agent_failed"
              => /\ pc[q] = "failed"
                 /\ outcome[q].raised = "AgentExecutionException"
                 /\ outcome[q].failed_agent = Task(q).agent
                 /\ Len(hist[q].invoked) = idx[q] + 1
                 /\ hist[q].invoked[idx[q] + 1] = idx[q]

\* What the code does when an agent raises: the call is the last one of
\* the query and no task is invoked twice; an Exception leaves execute
\* as an AgentExecutionException that names the agent of the failing
\* task, an exception of a class outside Exception leaves it as it is,
\* without the agent name.
NoRetriesExceptionNamed ==
    \A q \in Procs :
        /\ \A m, n \in DOMAIN hist[q].invoked :
              m # n => hist[q].invoked[m] # hist[q].invoked[n]
        /\ outcome[q].error = "agent_failed"
              => /\ pc[q] = "failed"
                 /\ Len(hist[q].invoked) = idx[q] + 1
                 /\ hist[q].invoked[idx[q] + 1] = idx[q]
                 /\ outcome[q].origin \in ExceptionClasses
                       => /\ outcome[q].raised = "AgentExecutionException"
                          /\ outcome[q].failed_agent = Task(q).agent
                 /\ outcome[q].origin \notin ExceptionClasses
                       => /\ outcome[q].raised = outcome[q].origin
                          /\ outcome[q].failed_agent = "none"

\* The agent of the second task of a plan raised an Exception after the
\* first task was recorded.
SecondAgentRaised ==
    \E q \in Procs :
        /\ pc[q] = "failed"
        /\ outcome[q].error = "agent_failed"
        /\ outcome[q].failed_agent = "data_analysis"
        /\ hist[q].invoked = <<0, 1>>
        /\ Len(hist[q].recorded) = 1

RecordedCalls == SumOver(Procs, [q \in Procs |-> Len(hist[q].recorded)])

\* The calls whose record is logged and whose increment is not applied.
RecordsInFlight ==
    Cardinality({q \in Procs :
                    pc[q] \in {"expire_usage_log", "update_daily_totals"}})

\* Every agent call that returned has exactly one ledger increment and
\* one log record, with the cost of its actual input and result sizes.
SuccessRecordedOnce ==
    /\ daily_usage[today].queries_processed = RecordedCalls
    /\ Len(usage_log[today]) = RecordedCalls + RecordsInFlight
    /\ \A q \in Procs : \A n \in DOMAIN hist[q].recorded :
          /\ n - 1 \in DOMAIN results[q]
          /\ hist[q].recorded[n] =
                calculate_cost_estimate(
                    InputTokens(tasks[q][n].task_len, ContextAt(q, n - 1)),
                    OutputTokens(results[q][n - 1]))

\* A task whose agent raised has no usage record.
RaisedNotRecorded ==
    \A q \in Procs :
        outcome[q].error = "agent_failed" => Len(hist[q].recorded) = idx[q]

\* A task the budget guard rejected has no usage record.
RejectedNotRecorded ==
    \A q \in Procs : \A k \in hist[q].rejected : Len(hist[q].recorded) <= k

\* C18: usage is recorded exactly for the successful agent calls: one
\* ledger increment and one log record each, at the actual cost, and none
\* for a task that the budget guard rejected or whose agent raised.
C18_RecordedExactlyForSuccess ==
    /\ SuccessRecordedOnce
    /\ RaisedNotRecorded
    /\ RejectedNotRecorded

Synthesizing(q) ==
    \E n \in DOMAIN hist[q].phases : hist[q].phases[n] = "SYNTHESIZING"

\* The causes of a failure inside the task loop.
TaskLoopCauses ==
    {"unknown_agent", "budget_exceeded", "unknown_agent_type",
     "agent_failed"}

TaskFailedNotSynthesized ==
    \E q \in Procs :
        /\ pc[q] = "failed"
        /\ outcome[q].error = "agent_failed"
        /\ hist[q].invoked # <<>>
        /\ hist[q].synthesized = 0
        /\ hist[q].synthesis_args = <<>>

PlannerFailed(q) == outcome[q].error = "planner_failed"

\* C22: a query whose planner failed is FAILED, went PLANNING -> FAILED
\* only, and had no budget check, no agent call, no synthesis call and no
\* usage record; the step in which the failure is taken changes neither
\* the ledger nor the usage log.
C22_PlannerFailureFatal ==
    /\ [](\A q \in Procs :
            PlannerFailed(q) =>
               /\ pc[q] = "failed"
               /\ hist[q].phases = <<"PLANNING", "FAILED">>
               /\ hist[q].checked = 0
               /\ hist[q].rejected = {}
               /\ hist[q].invoked = <<>>
               /\ hist[q].synthesized = 0
               /\ hist[q].recorded = <<>>)
    /\ [][\A q \in Procs :
            (~PlannerFailed(q) /\ PlannerFailed(q)')
            => /\ pc[q] = "planning"
               /\ daily_usage' = daily_usage
               /\ usage_log' = usage_log
               /\ issued' = issued]_vars

\* A query failed in planning while another query's usage is in the
\* ledger.
C22_Witness ==
    \E q \in Procs :
        /\ PlannerFailed(q)
        /\ pc[q] = "failed"
        /\ hist[q].overlapped
        /\ daily_usage[today].present
        /\ usage_log[today] # <<>>

\* The agent name of the k-th task of q whose usage was recorded.
RecordedAgent(q, k) == tasks[q][hist[q].invoked[k] + 1].agent

RecordedAgents(q) ==
    {RecordedAgent(q, k) : k \in 1..Len(hist[q].recorded)}

\* The cost recorded for the most recent task of q executed by agent a.
LastCostOf(q, a) ==
    LET ks == {k \in 1..Len(hist[q].recorded) : RecordedAgent(q, k) = a}
    IN  hist[q].recorded[CHOOSE k \in ks : \A j \in ks : j <= k]

\* The map m holds, for each agent that executed a task of q, the cost of
\* its most recent task, and total is the sum over all executed tasks.
LastWriteWins(q, m, total) ==
    /\ DOMAIN m = RecordedAgents(q)
    /\ \A a \in DOMAIN m : m[a] = LastCostOf(q, a)
    /\ total = SumSeq(hist[q].recorded)

\* C25: every recording of a task's usage overwrites agent_costs at the
\* task's agent name with the task's cost, leaves the other names alone
\* and adds the cost to the accumulated cost; so for a query with no
\* other execute() call in progress during its own, agent_costs holds per
\* agent the cost of its most recent task (not a sum) and the accumulated
\* cost is the sum over all executed tasks, while it runs and in what it
\* returns.
C25_AgentCostsLastWriteWins ==
    /\ [](\A q \in Procs :
            ~hist[q].overlapped =>
               /\ pc[q] \notin {"idle", "planning", "complete", "failed"}
                  => LastWriteWins(q, agent_costs, current_query_cost)
               /\ pc[q] = "complete"
                  => LastWriteWins(q, outcome[q].agent_costs,
                                   outcome[q].total_cost))
    /\ [][\A q \in Procs :
            Len(hist'[q].recorded) > Len(hist[q].recorded)
            => LET c == hist'[q].recorded[Len(hist'[q].recorded)]
                   a == rec[q].agent_name
               IN  /\ DOMAIN agent_costs' = DOMAIN agent_costs \cup {a}
                   /\ agent_costs'[a] = c
                   /\ \A b \in DOMAIN agent_costs \ {a} :
                         agent_costs'[b] = agent_costs[b]
                   /\ current_query_cost' = current_query_cost + c]_vars

\* A query that ran alone completed two tasks of the same agent at
\* different costs: agent_costs holds the second cost, the total both.
C25_Witness ==
    \E q \in Procs :
        /\ pc[q] = "complete"
        /\ ~hist[q].overlapped
        /\ Len(hist[q].recorded) = 2
        /\ RecordedAgent(q, 1) = RecordedAgent(q, 2)
        /\ hist[q].recorded[1] # hist[q].recorded[2]
        /\ outcome[q].agent_costs[RecordedAgent(q, 1)] = hist[q].recorded[2]
        /\ outcome[q].total_cost
              = hist[q].recorded[1] + hist[q].recorded[2]

\* The part of C26 that holds in execute: a task whose check came back as
\* the fail-open dictionary adds 0 to the summed estimated cost.
FailOpenContributesZero ==
    [][\A q \in Procs :
          ( /\ pc[q] = "update_daily_totals"
            /\ pc'[q] # pc[q]
            /\ budget_check[q].outcome = "fail_open" )
          => /\ budget_check[q].estimated_cost = 0
             /\ total_estimated_cost'[q] = total_estimated_cost[q]]_vars

\* The plan of q has arrived and all its agents expose execute.
AllExecute(q) ==
    /\ pc[q] \notin {"idle", "planning"}
    /\ ~PlannerFailed(q)
    /\ \A k \in 1..Len(tasks[q]) :
          /\ tasks[q][k].agent \in Registered
          /\ AgentMethod[tasks[q][k].agent] = "execute"

\* The results map of q as far as it got.
ResultsSoFar(q) ==
    IF pc[q] = "complete" THEN outcome[q].intermediate_results
    ELSE results[q]

\* The synthesis calls of AgentOrchestrator.execute once its task loop
\* has filled the results map res: one, with the query and that map.
BaseSynthesisCalls(query, res) == <<[query |-> query, results |-> res]>>

\* What AgentOrchestrator.execute returns when the synthesis has
\* replied.
BaseReturn(plan, res, reply) ==
    [answer |-> reply, steps |-> plan, intermediate_results |-> res]

\* What q did so far is what AgentOrchestrator.execute does on the same
\* query and plan with the same agent results and synthesis reply: the
\* same calls in the same order with the same task and context, no
\* failure the base has not, the same synthesis call once the loop is
\* through, and, once the synthesis has replied, the return of the same
\* answer, steps and results map.
SameAsBase(q) ==
    LET base == BaseLoop(tasks[q], ResultsSoFar(q), 0, <<>>, <<>>)
        made == hist[q].invoked
    IN  /\ Len(made) <= Len(base.invocations)
        /\ \A k \in 1..Len(made) :
              /\ made[k] = base.invocations[k].index
              /\ tasks[q][made[k] + 1].agent = base.invocations[k].agent
              /\ tasks[q][made[k] + 1].task_len
                    = base.invocations[k].task_len
              /\ hist[q].contexts[k] =
                    Handed("execute", base.invocations[k].context)
        /\ outcome[q].error \notin
              {"too_many_agents", "budget_exceeded", "unknown_agent",
               "unknown_agent_type", "metrics_failed"}
        /\ DOMAIN base.results = 0..(Len(tasks[q]) - 1)
              => /\ Len(made) = Len(tasks[q])
                 /\ ResultsSoFar(q) = base.results
                 /\ hist[q].synthesis_args
                       = BaseSynthesisCalls(QueryText(q), base.results)
        /\ hist[q].reply # <<>>
              => LET ret == BaseReturn(tasks[q], base.results,
                                       hist[q].reply[1])
                 IN  /\ pc[q] = "complete"
                     /\ outcome[q].answer = ret.answer
                     /\ outcome[q].steps = ret.steps
                     /\ outcome[q].intermediate_results
                           = ret.intermediate_results

\* C28: for every plan whose agents all expose execute and whose budget
\* checks all approve, the enhanced orchestrator does what the base
\* orchestrator does: the same agent calls in the same order with the
\* same arguments, the same results map, the same synthesis call and
\* the same answer and steps returned.
C28_SameAsBase ==
    \A q \in Procs :
        (AllExecute(q) /\ hist[q].rejected = {}) => SameAsBase(q)

\* The same, for plans of at most MAX_AGENTS_PER_QUERY tasks and a daily
\* budget other than 0, where the enhanced orchestrator has no failure
\* of its own.
SameAsBaseWithinLimit ==
    \A q \in Procs :
        ( /\ AllExecute(q)
          /\ hist[q].rejected = {}
          /\ ~TooManyTasks(Len(tasks[q]), config.max_agents)
          /\ ~RecordCostRaises(config.daily) )
        => SameAsBase(q)

\* A query completed a plan of two execute tasks, the second of which got
\* the result of the first as context, with every check approved.
CompletedLikeBase ==
    \E q \in Procs :
        /\ AllExecute(q)
        /\ hist[q].rejected = {}
        /\ pc[q] = "complete"
        /\ Len(tasks[q]) = 2
        /\ hist[q].checked = 2
        /\ hist[q].invoked = <<0, 1>>
        /\ DOMAIN hist[q].contexts[2].context = {0}
        /\ outcome[q].answer = hist[q].reply[1]

\* With a daily budget of 0 the synthesis replied to a query without
\* tasks and the query failed all the same.
FailedAfterSynthesis ==
    \E q \in Procs :
        /\ config.daily = 0
        /\ pc[q] = "failed"
        /\ tasks[q] = <<>>
        /\ hist[q].reply # <<>>
        /\ outcome[q].error = "metrics_failed"

\* No day's total_cost exceeds the daily budget.
DailyCeiling == \A d \in Days : daily_usage[d].total_cost <= config.daily

\* Queries that run one after the other, every check approved, keep the
\* ceiling when no task costs more than its estimate.
CeilingWhenSequential ==
    (\A q \in Procs : hist[q].rejected = {} /\ ~hist[q].overlapped)
    => DailyCeiling

\* C29: whatever the interleaving of the queries sharing the ledger (the
\* store is available and nothing is reset in these runs), the day's
\* total_cost never exceeds the daily budget.  Stated for the runs in
\* which every budget check approved, so that no rejected task adds to
\* the total.
C29_DailyCeiling ==
    (\A q \in Procs : hist[q].rejected = {}) => DailyCeiling

\* The estimate _pre_flight_agent_check computes for task i of a plan,
\* given the results stored so far.
TaskEstimate(plan, i, res) ==
    LET t == plan[i + 1]
    IN  calculate_cost_estimate(
            InputTokens(t.task_len, DepResults(res, t.depends_on)),
            EstimateOutputTokens(t.agent, t.task_len))

\* The decision as a function of the estimate, the two budgets and the
\* ledger total the check has read, and of nothing else.
GuardDecision(est, per_query, daily, total) ==
    IF est > per_query THEN "per_query_budget"
    ELSE IF total + est > daily THEN "remaining_daily_budget"
    ELSE "approved"

\* The task of q under check, with its estimate, is between the two
\* comparisons or behind them.
DecisionPending(q) ==
    pc[q] \in {"check_daily_budget", "status_read", "daily_exceeded_read"}

\* C30: the budget decision for a task is a function of the task's
\* estimate, the two budgets and the ledger total read by the check: what
\* the query has cost so far, agent_costs and the number of tasks already
\* executed have no part in it.  While a check is under way its estimate
\* is the task's and the branch taken is the one GuardDecision gives; a
\* task is rejected in a step exactly when GuardDecision rejects it, and
\* invoked unrejected exactly when GuardDecision approves.
C30_DecisionInputs ==
    /\ [](\A q \in Procs :
            DecisionPending(q) =>
              /\ chk[q].estimated_cost =
                    TaskEstimate(tasks[q], idx[q], results[q])
              /\ ~(chk[q].estimated_cost > config.per_query)
              /\ pc[q] = "status_read" =>
                    GuardDecision(chk[q].estimated_cost, config.per_query,
                                  config.daily, chk[q].current_usage)
                    = "approved"
              /\ pc[q] = "daily_exceeded_read" =>
                    GuardDecision(chk[q].estimated_cost, config.per_query,
                                  config.daily, chk[q].current_usage)
                    = "remaining_daily_budget")
    /\ [][\A q \in Procs :
            /\ (pc[q] = "check_daily_budget" /\ pc'[q] # pc[q]) =>
                  /\ chk'[q].current_usage = KeyedTotal(q)
                  /\ chk'[q].estimated_cost = chk[q].estimated_cost
            /\ hist'[q].rejected # hist[q].rejected =>
                  \/ pc[q] = "daily_exceeded_read"
                  \/ /\ ~DecisionPending(q)
                     /\ GuardDecision(
                            TaskEstimate(tasks'[q], idx'[q], results'[q]),
                            config.per_query, config.daily, 0)
                        = "per_query_budget"
            /\ ( /\ Len(hist'[q].invoked) > Len(hist[q].invoked)
                 /\ hist'[q].rejected = hist[q].rejected ) =>
                  pc[q] = "status_read"]_vars

\* A task after the first was approved although what the query had cost
\* so far plus the estimate exceeds the per-query cap.
C30_Witness ==
    \E q \in Procs :
        /\ pc[q] = "agent_call"
        /\ idx[q] >= 1
        /\ idx[q] \notin hist[q].rejected
        /\ budget_check[q].outcome = "approved"
        /\ ~hist[q].overlapped
        /\ current_query_cost > 0
        /\ current_query_cost + budget_check[q].estimated_cost
              > config.per_query

\* C32: a store failure while recording never fails the query.  Whatever
\* the store does during the LPUSH, the EXPIRE and the pipeline of
\* record_usage, the step that ends the recording of task i stores the
\* agent's result under i and goes on to the next task or to the
\* synthesis; none of the three steps leaves the query FAILED.
C32_RecordingFailureHarmless ==
    [][\A q \in Procs :
         /\ (pc[q] = "store_usage_record" /\ pc'[q] # pc[q]) =>
               /\ pc'[q] = IF redis_up THEN "expire_usage_log"
                           ELSE "update_daily_totals"
               /\ outcome'[q] = outcome[q]
         /\ (pc[q] = "expire_usage_log" /\ pc'[q] # pc[q]) =>
               /\ pc'[q] = "update_daily_totals"
               /\ outcome'[q] = outcome[q]
         /\ (pc[q] = "update_daily_totals" /\ pc'[q] # pc[q]) =>
               /\ pc'[q] \in {"check_daily_budget", "agent_call", "synthesis"}
               /\ idx[q] \in DOMAIN results'[q]
               /\ results'[q][idx[q]] = agent_result[q]
               /\ idx'[q] = idx[q] + 1
               /\ Len(hist'[q].recorded) = Len(hist[q].recorded) + 1
               /\ outcome'[q] = outcome[q]
               /\ (idx'[q] = Len(tasks[q])) = (pc'[q] = "synthesis")]_vars

\* A query ran alone and is COMPLETE with both its tasks' results,
\* although neither a usage record nor an increment of its tasks reached
\* the store.
C32_Witness ==
    \E q \in Procs :
        /\ pc[q] = "complete"
        /\ \A o \in Procs \ {q} : pc[o] = "idle"
        /\ Len(tasks[q]) = 2
        /\ DOMAIN outcome[q].intermediate_results = {0, 1}
        /\ {"log_failed", "incr_failed"} \subseteq faults
        /\ \A d \in Days : usage_log[d] = <<>> /\ ~daily_usage[d].present

\* Query q makes at most one pass over its plan: no more budget checks,
\* agent calls or usage records than the plan has tasks, each task index
\* called at most once and in order, at most one synthesis call.
OnePass(q) ==
    /\ hist[q].checked <= Len(tasks[q])
    /\ Len(hist[q].invoked) <= Len(tasks[q])
    /\ Len(hist[q].recorded) <= Len(hist[q].invoked)
    /\ \A i, j \in DOMAIN hist[q].invoked :
          i < j => hist[q].invoked[i] < hist[q].invoked[j]
    /\ hist[q].synthesized <= 1
    /\ idx[q] <= Len(tasks[q])

\* C33: every query terminates.  When every call a query awaits
\* eventually returns or raises, every execute call that was started
\* eventually is COMPLETE or FAILED; on the way the index of the task
\* loop never goes back and the query makes at most one pass over its
\* plan.
C33_Terminates ==
    /\ \A q \in Procs : (pc[q] # "idle") ~> Terminal(q)
    /\ [](\A q \in Procs : OnePass(q))
    /\ [][\A q \in Procs : idx'[q] >= idx[q]]_vars

\* A query is COMPLETE after a plan of two tasks, each checked, called and
\* recorded once, while another query ran at the same time.
C33_Witness ==
    \E q \in Procs :
        /\ pc[q] = "complete"
        /\ Len(tasks[q]) = 2
        /\ hist[q].checked = 2
        /\ hist[q].invoked = <<0, 1>>
        /\ Len(hist[q].recorded) = 2
        /\ hist[q].synthesized = 1
        /\ hist[q].overlapped

\* C10: a failure of a query (planner failure, too many tasks, an agent
\* failure, ...) is returned by execute to its caller as a structured
\* FAILED outcome with an empty answer and an error description, and no
\* exception is raised past the orchestrator.
C10_FailureReturnedAsOutcome ==
    \A q \in Procs :
        pc[q] = "failed" => /\ outcome[q].status = "FAILED"
                            /\ outcome[q].answer = 0
                            /\ outcome[q].error # "none"
                            /\ outcome[q].raised = "none"

\* What execute does instead: every failure leaves it as an exception,
\* and nothing is returned.
FailureRaised ==
    \A q \in Procs :
        pc[q] = "failed" => /\ outcome[q].raised # "none"
                            /\ outcome[q].answer = 0
                            /\ outcome[q].steps = <<>>

\* The causes a query can fail of.
FailureCauses ==
    {"planner_failed", "too_many_agents", "budget_exceeded",
     "unknown_agent", "unknown_agent_type", "agent_failed",
     "synthesis_failed", "metrics_failed"}

\* C34: every failure of execute reaches its caller as
\* AgentExecutionException, whatever its cause: a FAILED query has one of
\* the known causes and raised AgentExecutionException, and a query that
\* did not fail raised nothing.
C34_OneErrorKind ==
    \A q \in Procs :
        /\ pc[q] = "failed" =>
              /\ outcome[q].status = "FAILED"
              /\ outcome[q].error \in FailureCauses
              /\ outcome[q].raised = "AgentExecutionException"
        /\ pc[q] # "failed" => outcome[q].raised = "none"

\* The failures the capabilities cause.
CapabilityCauses == {"planner_failed", "agent_failed", "synthesis_failed"}

\* What the two handlers do: a failure that starts as an Exception
\* leaves execute as AgentExecutionException; one that starts as a class
\* outside Exception, which only a capability raises, leaves it as it
\* is.
ExceptionsBecomeOneKind ==
    \A q \in Procs :
        /\ pc[q] = "failed" =>
              /\ outcome[q].status = "FAILED"
              /\ outcome[q].error \in FailureCauses
              /\ outcome[q].origin \in ExceptionClasses \cup CapabilityRaises
              /\ outcome[q].raised =
                    IF outcome[q].origin \in ExceptionClasses
                    THEN "AgentExecutionException" ELSE outcome[q].origin
              /\ outcome[q].origin \notin ExceptionClasses
                    => outcome[q].error \in CapabilityCauses
        /\ pc[q] # "failed" => outcome[q].raised = "none"

\* Two queries have failed of different causes, one of them raised
\* outside the try of the task loop as a KeyError (the agent name is not
\* registered), the other inside it, and both left execute as the same
\* class.
TwoCausesOneKind ==
    \E p, q \in Procs :
        /\ pc[p] = "failed" /\ pc[q] = "failed"
        /\ outcome[p].error = "unknown_agent"
        /\ outcome[p].origin = "KeyError"
        /\ outcome[q].error \in {"agent_failed", "unknown_agent_type"}
        /\ outcome[p].raised = outcome[q].raised

\* A cancellation raised by an agent left execute as CancelledError.
CancellationUnwrapped ==
    \E q \in Procs :
        /\ pc[q] = "failed"
        /\ outcome[q].error = "agent_failed"
        /\ outcome[q].raised = "CancelledError"
        /\ outcome[q].failed_agent = "none"

(***************************************************************************)
(* Properties of the API handler (SpecApi).                                *)
(***************************************************************************)
ApiFailed(p) == pc[p] = "responded" /\ outcome[p].error # "none"

\* The handler never answers a failure with an empty answer.  (Violated:
\* its answer is the error text.)
ApiFailureEmptyAnswer ==
    \A p \in Procs :
        ApiFailed(p) => /\ outcome[p].answer = 0
                        /\ ~outcome[p].escaped

\* What execute_query does with a failure of the base orchestrator: an
\* Exception is answered with a QueryResponse whose answer is the text
\* "Error executing query: " followed by the exception message (never
\* empty), with no steps, no intermediate results and execution time 0;
\* an exception of any other class leaves the handler.
ApiFailureAnswerCarriesError ==
    \A p \in Procs :
        ApiFailed(p) =>
            /\ outcome[p].escaped
                  <=> outcome[p].error \in CapabilityRaises \ ExceptionClasses
            /\ ~outcome[p].escaped
                  => /\ outcome[p].answer >= 23
                     /\ outcome[p].steps = <<>>
                     /\ outcome[p].intermediate_results = <<>>
                     /\ outcome[p].execution_time = 0

\* A planner failure with an empty message and the failure of the second
\* task of a plan are both answered.
ApiFailuresAnswered ==
    \E p1, p2 \in Procs :
        /\ ApiFailed(p1) /\ outcome[p1].error = "planner_failed"
        /\ outcome[p1].answer = 23
        /\ ApiFailed(p2) /\ outcome[p2].error = "KeyError"
        /\ outcome[p2].answer = 39
        /\ idx[p2] = 1

\* A cancellation of the planner call left the handler without a
\* response.
ApiFailureEscaped ==
    \E p \in Procs :
        /\ ApiFailed(p)
        /\ outcome[p].error = "CancelledError"
        /\ outcome[p].escaped

====
